---- MODULE Spec2Model ----
(***************************************************************************)
(* A model of graphlab::distributed_aggregator                             *)
(* (src/graphlab/aggregation/distributed_aggregator.hpp): the registry of  *)
(* map-reduce descriptors, the collective aggregate_now, the synchronous   *)
(* tick driver and the asynchronous tick driver with its countdowns.       *)
(*                                                                         *)
(* The reduction type is instantiated with bags (multisets) of mapped      *)
(* elements and "+" with bag union: the free commutative monoid, so the    *)
(* value a finalizer receives tells how often every vertex or edge was     *)
(* mapped.                                                                 *)
(***************************************************************************)
EXTENDS Integers, Sequences, FiniteSets, Bags, TLC

\* ---------------------------------------------------------------- bounds
NumProcs == 2
NumVertices == 2
MaxThreads == 2
MaxCalls == 2
MaxTime == 2
MaxPeriod == 1
MaxOps == 3
MaxStops == 2
LifeCpus == 1

Procs == 0 .. (NumProcs - 1)
Vertices == 1 .. NumVertices
\* a ring: one edge out of every vertex
Edges == {<<v, (v % NumVertices) + 1>> : v \in Vertices}
Keys == {"kv", "ke"}

VARIABLES
  graph,            \* the partitioned graph: owner of each vertex, machine of each edge
  omp_threads,      \* size of each machine's OpenMP team (1 without _OPENMP)
  clock,            \* each machine's timer::approx_time_seconds()
  aggregators,      \* per machine: key -> descriptor
  aggregate_period, \* per machine: key -> period
  started,          \* per machine: start() has run
  start_time,       \* per machine
  schedule,         \* per machine: bag of <<key, priority>>, priority = -fire time
  ncpus,            \* per machine
  async_state,      \* per machine: key -> async_aggregator_state
  mainpc,           \* per machine: where its engine thread stands
  caller,           \* per machine: who called the running aggregate_now
  curkey,           \* per machine: the key of the running aggregate_now
  curtime,          \* per machine: tick_synchronous' curtime
  next_time,        \* per machine: tick_synchronous' next_time
  gatherbox,        \* rmi.gather: what each machine sent to machine 0
  bcastq,           \* rmi.broadcast: per receiver, FIFO of values from machine 0
  script,           \* the collective calls the engine makes, in order
  opidx,            \* per machine: how many of them it has begun
  schedule_lock,    \* per machine: the worker holding the schedule mutex, or -1
  wpc,              \* per machine and worker thread: where it stands, and its key
  todo,             \* per machine: the <<cpuid, key>> calls of
                    \* tick_asynchronous_compute the engine still owes
  rpc,              \* the remote calls in flight
  handlers,         \* keys for which an RPC thread of machine 0 stands before
                    \* the finalize of decrement_distributed_counter
  aborted,          \* per machine: an assertion has failed
  contrib,          \* history: per machine, the snapshot it put into each gather
  finlog,           \* history: per machine, every finalize call (key, accumulator)
  returned,         \* history: per machine and key, the tick_asynchronous calls
                    \* that returned the key
  pushlog,          \* history: per machine, every rpc_schedule_key (key, time)
  resched,          \* history: every reschedule machine 0 computed
  nfolded,          \* history: per machine and key, folds added to the root
  ncompute,         \* history: per machine and key, local countdown steps
  handoffs,         \* history: per machine and key, hand-offs to machine 0
  nmerged,          \* history: per machine and key, snapshots merged by machine 0
  lastcall          \* history: per machine, the last registration or stop call:
                    \* how many were made, which one, its arguments and result

\* what no engine call changes
envVars == <<graph, omp_threads, lastcall>>
startVars == <<started, start_time, ncpus, async_state>>
tickVars == <<curtime, next_time>>
callVars == <<mainpc, caller, curkey>>
rmiVars == <<gatherbox, bcastq>>
engineVars == <<script, opidx>>
histVars == <<contrib, finlog>>
workerVars == <<schedule_lock, todo, rpc, handlers, aborted>>
asyncHist == <<returned, pushlog, resched, nfolded, ncompute, handoffs, nmerged>>
vars == <<graph, omp_threads, clock, aggregators, aggregate_period, started,
          start_time, schedule, ncpus, async_state, mainpc, caller, curkey,
          curtime, next_time, gatherbox, bcastq, script, opidx, schedule_lock,
          wpc, todo, rpc, handlers, aborted, contrib, finlog, returned,
          pushlog, resched, nfolded, ncompute, handoffs, nmerged, lastcall>>

\* ------------------------------------------------- the graph collaborator
RECURSIVE SortedSeq(_)
SortedSeq(S) ==
  IF S = {} THEN <<>>
  ELSE LET x == CHOOSE a \in S : \A b \in S : a <= b
       IN <<x>> \o SortedSeq(S \ {x})

\* a machine stores the vertices it owns and both endpoints of its edges
LocalVertices(m) ==
  SortedSeq({v \in DOMAIN graph.owner :
               \/ graph.owner[v] = m
               \/ \E e \in DOMAIN graph.eproc :
                    graph.eproc[e] = m /\ (e[1] = v \/ e[2] = v)})

num_local_vertices(m) == Len(LocalVertices(m))

l_vertex(m, i) == LocalVertices(m)[i + 1]

in_edges(m, v) == {e \in DOMAIN graph.eproc : graph.eproc[e] = m /\ e[2] = v}

Graphs ==
  {[owner |-> o, eproc |-> p] : o \in [Vertices -> Procs], p \in [Edges -> Procs]}

\* ------------------------------------- conditional_addition_wrapper<T>
EmptyAcc == [has_value |-> FALSE, value |-> EmptyBag]

\* operator+=(const T&)
AddValue(acc, x) ==
  IF acc.has_value THEN [has_value |-> TRUE, value |-> acc.value (+) x]
  ELSE [has_value |-> TRUE, value |-> x]

\* operator+=(const conditional_addition_wrapper&)
AddAcc(acc, other) ==
  IF acc.has_value /\ other.has_value
    THEN [has_value |-> TRUE, value |-> acc.value (+) other.value]
  ELSE IF other.has_value THEN other
  ELSE acc

\* ------------------------------------------------- map_reduce_type<T>
\* the user's map functions: the mapped element, once
map_vtx_function(fn, v) == SetToBag({<<fn, v, v>>})

map_edge_function(fn, e) == SetToBag({<<fn, e[1], e[2]>>})

MapReduceType(vertex_map, fn) ==
  [vertex_map |-> vertex_map, fn |-> fn, acc |-> EmptyAcc]

clone_empty(mr) == MapReduceType(mr.vertex_map, mr.fn)

perform_map_vertex(mr, v) ==
  [mr EXCEPT !.acc = AddValue(@, map_vtx_function(mr.fn, v))]

perform_map_edge(mr, e) ==
  [mr EXCEPT !.acc = AddValue(@, map_edge_function(mr.fn, e))]

is_vertex_map(mr) == mr.vertex_map

get_accumulator(mr) == mr.acc

add_accumulator_any(mr, other) == [mr EXCEPT !.acc = AddAcc(@, other)]

\* a receiver that adds the broadcast value to its local sum
set_accumulator_any_adds(mr, other) == [mr EXCEPT !.acc = AddAcc(@, other)]

set_accumulator_any(mr, other) == [mr EXCEPT !.acc = other]

\* a combine that counts an empty operand as a value
add_accumulator_marks(mr, other) ==
  [mr EXCEPT !.acc = [has_value |-> TRUE, value |-> @.value (+) other.acc.value]]

add_accumulator(mr, other) == [mr EXCEPT !.acc = AddAcc(@, other.acc)]

\* a clear that leaves the accumulator as it is
clear_accumulator_keeps(mr) == mr

clear_accumulator(mr) == [mr EXCEPT !.acc = EmptyAcc]

\* finalize(context): the call is recorded with the accumulator it reads and
\* the number of the engine call it ran in
FinalizeCall(key, mr, op) == [key |-> key, acc |-> mr.acc, op |-> op]

\* ------------------------------------------ mutable_queue<string, float>
\* a max-heap on the priority; which of several equal priorities is on top
\* is fixed by the content
QueueTop(q) ==
  CHOOSE e \in BagToSet(q) : \A f \in BagToSet(q) : f[2] <= e[2]

QueuePush(q, key, priority) == q (+) SetToBag({<<key, priority>>})

\* pop() of an empty queue removes nothing
QueuePop(q) ==
  IF BagToSet(q) = {} THEN q ELSE q (-) SetToBag({QueueTop(q)})

QueueEmpty(q) == BagToSet(q) = {}

\* ------------------------------------------------------ the local reducer
\* a reducer without the owner filter: ghost replicas are mapped too
owner_filter_none(m, v) == TRUE

\* lvertex.owner() == rmi.procid()
owner_filter(m, v) == graph.owner[v] = m

\* for (i = first; i < num_local_vertices; i += step) over owned vertices
RECURSIVE map_vertex_loop(_, _, _, _)
map_vertex_loop(m, localmr, i, step) ==
  IF i >= num_local_vertices(m) THEN localmr
  ELSE map_vertex_loop(m,
         IF owner_filter(m, l_vertex(m, i))
           THEN perform_map_vertex(localmr, l_vertex(m, i))
           ELSE localmr,
         i + step, step)

RECURSIVE map_edge_set(_, _)
map_edge_set(localmr, S) ==
  IF S = {} THEN localmr
  ELSE LET e == CHOOSE x \in S : TRUE
       IN map_edge_set(perform_map_edge(localmr, e), S \ {e})

\* for (i = first; i < num_local_vertices; i += step) over all in-edges
RECURSIVE map_edge_loop(_, _, _, _)
map_edge_loop(m, localmr, i, step) ==
  IF i >= num_local_vertices(m) THEN localmr
  ELSE map_edge_loop(m, map_edge_set(localmr, in_edges(m, l_vertex(m, i))),
                     i + step, step)

\* the body of "omp parallel" for thread t of a team of T: the vertex loop is
\* an "omp for" (its iterations are divided among the team, here cyclically);
\* the edge loop is not, every thread of the team runs all of it
omp_thread_body(m, mr, t, T) ==
  IF is_vertex_map(clone_empty(mr))
    THEN map_vertex_loop(m, clone_empty(mr), t, T)
    ELSE map_edge_loop(m, clone_empty(mr), 0, 1)

\* the parallel region: every thread adds its localmr under "omp critical"
RECURSIVE omp_parallel(_, _, _, _)
omp_parallel(m, mr, t, T) ==
  IF t >= T THEN mr
  ELSE omp_parallel(m, add_accumulator(mr, omp_thread_body(m, mr, t, T)),
                    t + 1, T)

\* a local reduction that adds to what the descriptor holds
local_reduce_from_unclear(m, mr) == omp_parallel(m, mr, 0, omp_threads[m])

\* aggregate_now up to the gather on the descriptor mr: clear, then reduce
\* the local data
local_reduce_from(m, mr) ==
  omp_parallel(m, clear_accumulator(mr), 0, omp_threads[m])

local_reduce(m, key) == local_reduce_from(m, aggregators[m][key])

\* ------------------------------------------------------- rmi collectives
\* rmi.broadcast by machine 0: every other machine's queue gets the value
Broadcast(q, msg) ==
  [i \in Procs |-> IF i = 0 THEN q[i] ELSE Append(q[i], msg)]

\* machine 0 adds gathervec[i], i = first .. numprocs-1, into mr
RECURSIVE add_gathered(_, _)
add_gathered(mr, i) ==
  IF i >= NumProcs THEN mr
  ELSE add_gathered(add_accumulator_any(mr, Head(gatherbox[i])), i + 1)

\* the engine's next collective call on machine m is op: every machine makes
\* the same calls in the same order
NextOpWithin(m, op, max) ==
  /\ opidx[m] < max
  /\ IF opidx[m] < Len(script)
       THEN op = script[opidx[m] + 1] /\ script' = script
       ELSE script' = Append(script, op)
  /\ opidx' = [opidx EXCEPT ![m] = @ + 1]

NextOp(m, op) == NextOpWithin(m, op, MaxCalls)

EmptyMap == [k \in {} |-> 0]

\* an assertion that logs and lets the caller go on
fatal_ignored(m) == aborted

\* a failed ASSERT_*: the process of machine m aborts
fatal(m) == [aborted EXCEPT ![m] = TRUE]

\* ------------------------------------------------------------ the schedule
\* a comparison that also fires a key whose fire time is the current time
is_due_or_now(q, now) == -QueueTop(q)[2] <= now

\* a comparison that finds every key due
is_due_always(q, now) == TRUE

\* -schedule.top().second < curtime
is_due(q, now) == -QueueTop(q)[2] < now

\* a next fire time that leaves out the current time
reschedule_time_stale(m, key) == aggregate_period[m][key]

\* approx_time_seconds() + aggregate_period[key] - start_time
reschedule_time(m, key) == clock[m] + aggregate_period[m][key] - start_time[m]

\* -------------------------------------------------------- aggregate_now
\* the call up to rmi.gather: the local reduction and this machine's entry
\* of gathervec
AggregateNowBegin(m, key, who) ==
  LET mr == local_reduce(m, key) IN
  /\ aggregators' = [aggregators EXCEPT ![m][key] = mr]
  /\ contrib' = [contrib EXCEPT ![m] = Append(@, get_accumulator(mr))]
  /\ gatherbox' = IF m = 0 THEN gatherbox
                  ELSE [gatherbox EXCEPT ![m] = Append(@, get_accumulator(mr))]
  /\ mainpc' = [mainpc EXCEPT ![m] = IF m = 0 THEN "an_gather" ELSE "an_bcast"]
  /\ caller' = [caller EXCEPT ![m] = who]
  /\ curkey' = [curkey EXCEPT ![m] = key]

\* the engine calls aggregate_now(key) on machine m
AggregateNow(m, key) ==
  /\ mainpc[m] = "idle"
  /\ ~aborted[m]
  /\ NextOp(m, [op |-> "now", key |-> key])
  /\ IF key \notin DOMAIN aggregators[m]
       THEN /\ aborted' = fatal(m)
            /\ UNCHANGED <<aggregators, contrib, gatherbox, callVars>>
       ELSE /\ AggregateNowBegin(m, key, "engine")
            /\ UNCHANGED aborted
  /\ UNCHANGED <<envVars, clock, aggregate_period, startVars, schedule,
                 tickVars, bcastq, finlog>>
  /\ UNCHANGED <<wpc, schedule_lock, todo, rpc, handlers, asyncHist>>

\* machine 0 from the completed gather to the return of aggregate_now, and,
\* when tick_synchronous called it, on to the head of its loop
AggregateNowGather ==
  /\ mainpc[0] = "an_gather"
  /\ \A i \in Procs \ {0} : gatherbox[i] # <<>>
  /\ LET key == curkey[0]
         mr == add_gathered(aggregators[0][key], 1)
         afterVal == Broadcast(bcastq, [kind |-> "acc", acc |-> get_accumulator(mr)])
         nt == reschedule_time(0, key)
     IN /\ finlog' = [finlog EXCEPT ![0] = Append(@, FinalizeCall(key, mr, opidx[0]))]
        /\ aggregators' = [aggregators EXCEPT ![0][key] = clear_accumulator(mr)]
        /\ gatherbox' = [i \in Procs |->
                           IF i = 0 THEN gatherbox[i] ELSE Tail(gatherbox[i])]
        /\ IF caller[0] = "tick"
             THEN /\ schedule' = [schedule EXCEPT
                                    ![0] = QueuePush(QueuePop(@), key, -nt)]
                  /\ next_time' = [next_time EXCEPT ![0] = nt]
                  /\ bcastq' = Broadcast(afterVal, [kind |-> "time", t |-> nt])
                  /\ mainpc' = [mainpc EXCEPT ![0] = "ts_loop"]
             ELSE /\ bcastq' = afterVal
                  /\ mainpc' = [mainpc EXCEPT ![0] = "idle"]
                  /\ UNCHANGED <<schedule, next_time>>
  /\ UNCHANGED <<envVars, clock, aggregate_period, startVars, curtime, caller,
                 curkey, engineVars, contrib>>
  /\ UNCHANGED <<wpc, workerVars, asyncHist>>

\* another machine from the received broadcast to the return of
\* aggregate_now, and, in tick_synchronous, on to the broadcast of next_time
AggregateNowBcast(m) ==
  /\ m # 0
  /\ mainpc[m] = "an_bcast"
  /\ bcastq[m] # <<>>
  /\ LET key == curkey[m]
         mr == set_accumulator_any(aggregators[m][key], Head(bcastq[m]).acc)
     IN /\ finlog' = [finlog EXCEPT ![m] = Append(@, FinalizeCall(key, mr, opidx[m]))]
        /\ aggregators' = [aggregators EXCEPT ![m][key] = clear_accumulator(mr)]
        /\ bcastq' = [bcastq EXCEPT ![m] = Tail(@)]
        /\ IF caller[m] = "tick"
             THEN /\ schedule' = [schedule EXCEPT ![m] = QueuePop(@)]
                  /\ next_time' = [next_time EXCEPT ![m] = reschedule_time(m, key)]
                  /\ mainpc' = [mainpc EXCEPT ![m] = "ts_next"]
             ELSE /\ mainpc' = [mainpc EXCEPT ![m] = "idle"]
                  /\ UNCHANGED <<schedule, next_time>>
  /\ UNCHANGED <<envVars, clock, aggregate_period, startVars, curtime, caller,
                 curkey, gatherbox, engineVars, contrib>>
  /\ UNCHANGED <<wpc, workerVars, asyncHist>>

\* ----------------------------------------------------------------- start
\* a start() that pushes onto what the schedule holds
start_schedule_keeps(m) ==
  schedule[m] (+)
    SetToBag({<<k, -aggregate_period[m][k]>> : k \in DOMAIN aggregate_period[m]})

\* the schedule start() builds: every periodic key at priority -period
start_schedule(m) ==
  SetToBag({<<k, -aggregate_period[m][k]>> : k \in DOMAIN aggregate_period[m]})

IdleWorker == [pc |-> "idle", key |-> ""]

\* an async state whose reducers are all cloned from the descriptor of "kv"
start_async_state_first(m, k, n) ==
  [root_reducer |-> clone_empty(aggregators[m]["kv"]),
   per_thread_aggregation |-> [i \in 1 .. n |-> clone_empty(aggregators[m]["kv"])],
   local_count_down |-> n,
   distributed_count_down |-> NumProcs]

\* the async state start(n) builds for key k
start_async_state(m, k, n) ==
  [root_reducer |-> clone_empty(aggregators[m][k]),
   per_thread_aggregation |-> [i \in 1 .. n |-> clone_empty(aggregators[m][k])],
   local_count_down |-> n,
   distributed_count_down |-> NumProcs]

Start(m, n) ==
  /\ mainpc[m] = "idle"
  /\ ~aborted[m]
  /\ ~started[m]
  /\ started' = [started EXCEPT ![m] = TRUE]
  /\ schedule' = [schedule EXCEPT ![m] = start_schedule(m)]
  /\ start_time' = [start_time EXCEPT ![m] = clock[m]]
  /\ ncpus' = [ncpus EXCEPT ![m] = n]
  /\ async_state' =
       IF n > 0
         THEN [async_state EXCEPT ![m] =
                 [k \in DOMAIN async_state[m] \cup DOMAIN aggregate_period[m] |->
                    IF k \in DOMAIN aggregate_period[m]
                      THEN start_async_state(m, k, n)
                      ELSE async_state[m][k]]]
         ELSE async_state
  /\ UNCHANGED <<envVars, clock, aggregators, aggregate_period, tickVars,
                 callVars, rmiVars, engineVars, histVars>>
  /\ wpc' = [wpc EXCEPT ![m] = [w \in 0 .. (n - 1) |-> IdleWorker]]
  /\ UNCHANGED <<workerVars, asyncHist>>

\* the clock of machine m advances
AdvanceClock(m) ==
  /\ clock[m] < MaxTime
  /\ clock' = [clock EXCEPT ![m] = @ + 1]
  /\ UNCHANGED <<envVars, aggregators, aggregate_period, startVars, schedule,
                 tickVars, callVars, rmiVars, engineVars, histVars>>
  /\ UNCHANGED <<wpc, workerVars, asyncHist>>

\* ------------------------------------------------------- tick_synchronous
\* the call up to the broadcast of curtime, which machine 0 sends
TickSynchronous(m) ==
  /\ mainpc[m] = "idle"
  /\ started[m]
  /\ NextOp(m, [op |-> "tick", key |-> ""])
  /\ curtime' = [curtime EXCEPT ![m] = clock[m] - start_time[m]]
  /\ IF m = 0
       THEN /\ bcastq' = Broadcast(bcastq, [kind |-> "time",
                                            t |-> clock[m] - start_time[m]])
            /\ mainpc' = [mainpc EXCEPT ![m] = "ts_loop"]
       ELSE /\ mainpc' = [mainpc EXCEPT ![m] = "ts_curtime"]
            /\ UNCHANGED bcastq
  /\ UNCHANGED <<envVars, clock, aggregators, aggregate_period, startVars,
                 schedule, next_time, caller, curkey, gatherbox, histVars>>
  /\ UNCHANGED <<wpc, workerVars, asyncHist>>

\* another machine receives machine 0's curtime
TickCurtime(m) ==
  /\ m # 0
  /\ mainpc[m] = "ts_curtime"
  /\ bcastq[m] # <<>>
  /\ curtime' = [curtime EXCEPT ![m] = Head(bcastq[m]).t]
  /\ bcastq' = [bcastq EXCEPT ![m] = Tail(@)]
  /\ mainpc' = [mainpc EXCEPT ![m] = "ts_loop"]
  /\ UNCHANGED <<envVars, clock, aggregators, aggregate_period, startVars,
                 schedule, next_time, caller, curkey, gatherbox, engineVars,
                 histVars>>
  /\ UNCHANGED <<wpc, workerVars, asyncHist>>

\* the head of the while loop: a due key is aggregated, else the tick returns
TickLoop(m) ==
  /\ mainpc[m] = "ts_loop"
  /\ IF ~QueueEmpty(schedule[m]) /\ is_due(schedule[m], curtime[m])
       THEN /\ AggregateNowBegin(m, QueueTop(schedule[m])[1], "tick")
            /\ UNCHANGED finlog
       ELSE /\ mainpc' = [mainpc EXCEPT ![m] = "idle"]
            /\ UNCHANGED <<aggregators, caller, curkey, gatherbox, histVars>>
  /\ UNCHANGED <<envVars, clock, aggregate_period, startVars, schedule,
                 tickVars, bcastq, engineVars>>
  /\ UNCHANGED <<wpc, workerVars, asyncHist>>

\* a machine that takes the broadcast off the wire but pushes the key at the
\* next_time it computed from its own clock
TickNextTimeOwn(m) ==
  /\ m # 0
  /\ mainpc[m] = "ts_next"
  /\ bcastq[m] # <<>>
  /\ schedule' = [schedule EXCEPT ![m] = QueuePush(@, curkey[m], -next_time[m])]
  /\ bcastq' = [bcastq EXCEPT ![m] = Tail(@)]
  /\ mainpc' = [mainpc EXCEPT ![m] = "ts_loop"]
  /\ UNCHANGED <<envVars, clock, aggregators, aggregate_period, startVars,
                 tickVars, caller, curkey, gatherbox, engineVars, histVars>>
  /\ UNCHANGED <<wpc, workerVars, asyncHist>>

\* another machine receives machine 0's next_time and pushes the key
TickNextTime(m) ==
  /\ m # 0
  /\ mainpc[m] = "ts_next"
  /\ bcastq[m] # <<>>
  /\ next_time' = [next_time EXCEPT ![m] = Head(bcastq[m]).t]
  /\ schedule' = [schedule EXCEPT
                    ![m] = QueuePush(@, curkey[m], -Head(bcastq[m]).t)]
  /\ bcastq' = [bcastq EXCEPT ![m] = Tail(@)]
  /\ mainpc' = [mainpc EXCEPT ![m] = "ts_loop"]
  /\ UNCHANGED <<envVars, clock, aggregators, aggregate_period, startVars,
                 curtime, caller, curkey, gatherbox, engineVars, histVars>>
  /\ UNCHANGED <<wpc, workerVars, asyncHist>>

\* ------------------------------------------------------ tick_asynchronous
\* what no step of the asynchronous driver changes
asyncFrame ==
  <<graph, omp_threads, clock, aggregators, aggregate_period, started,
    start_time, ncpus, curtime, next_time, mainpc, caller, curkey, gatherbox,
    bcastq, script, opidx, contrib, lastcall>>

\* a tick that does not care who holds the schedule lock
try_lock_always(m) == TRUE

\* schedule_lock.try_lock()
try_lock(m) == schedule_lock[m] = -1

\* a worker calls tick_asynchronous: without the lock, or without a key whose
\* fire time is in the past, it returns "" at once; else it holds the lock
\* and has read the top key. The engine's workers run after start() has
\* returned on every machine.
TickAsynchronous(m, w) ==
  /\ \A i \in Procs : started[i]
  /\ ~aborted[m]
  /\ w \in DOMAIN wpc[m]
  /\ wpc[m][w].pc = "idle"
  /\ IF /\ try_lock(m)
        /\ ~QueueEmpty(schedule[m])
        /\ is_due(schedule[m], clock[m] - start_time[m])
       THEN /\ schedule_lock' = [schedule_lock EXCEPT ![m] = w]
            /\ wpc' = [wpc EXCEPT ![m][w] =
                         [pc |-> "ta_pop", key |-> QueueTop(schedule[m])[1]]]
       ELSE UNCHANGED <<schedule_lock, wpc>>
  /\ UNCHANGED <<asyncFrame, schedule, async_state, todo, rpc, handlers,
                 aborted, finlog, asyncHist>>

\* schedule.pop(), unlock, return key: the engine now owes one
\* tick_asynchronous_compute(cpuid, key) per cpuid
TickAsynchronousPop(m, w) ==
  /\ ~aborted[m]
  /\ w \in DOMAIN wpc[m]
  /\ wpc[m][w].pc = "ta_pop"
  /\ schedule' = [schedule EXCEPT ![m] = QueuePop(@)]
  /\ schedule_lock' = [schedule_lock EXCEPT ![m] = -1]
  /\ wpc' = [wpc EXCEPT ![m][w] = IdleWorker]
  /\ todo' = [todo EXCEPT ![m] =
                @ \cup {<<c, wpc[m][w].key>> : c \in 0 .. (ncpus[m] - 1)}]
  /\ returned' = [returned EXCEPT ![m][wpc[m][w].key] = @ + 1]
  /\ UNCHANGED <<asyncFrame, async_state, rpc, handlers, aborted, finlog,
                 pushlog, resched, nfolded, ncompute, handoffs, nmerged>>

\* ---------------------------------------------- tick_asynchronous_compute
\* the slice of thread cpuid: for (i = cpuid; i < num_local_vertices; i += ncpus)
async_map(m, localmr, cpuid) ==
  IF is_vertex_map(localmr)
    THEN map_vertex_loop(m, localmr, cpuid, ncpus[m])
    ELSE map_edge_loop(m, localmr, cpuid, ncpus[m])

\* countdown_val == 0 of the local countdown
local_done_early(countdown_val) == countdown_val <= 1

\* a local countdown that never reports the last worker
local_done_never(countdown_val) == FALSE

local_done(countdown_val) == countdown_val = 0

\* countdown_val == 0 of the distributed countdown, first phase
all_received_early(countdown_val) == countdown_val <= 1

all_received(countdown_val) == countdown_val = 0

\* a finalize phase that starts the countdown one too high
second_phase_over == NumProcs + 1

\* a finalize phase that waits for one acknowledgement fewer
second_phase_short == NumProcs - 1

\* the value the distributed countdown gets for the finalize phase

second_phase_count == NumProcs

RpcCall(fn, to, from, key, acc, t) ==
  [fn |-> fn, to |-> to, from |-> from, key |-> key, acc |-> acc, t |-> t]

\* decrement_distributed_counter up to the remote calls of
\* rpc_perform_finalize, on the async state st of the key
decrement_distributed_counter(st, key) ==
  LET countdown_val == st.distributed_count_down - 1 IN
  [ok |-> countdown_val <= NumProcs /\ countdown_val >= 0,
   zero |-> all_received(countdown_val),
   st |-> IF all_received(countdown_val)
            THEN [st EXCEPT !.distributed_count_down = second_phase_count]
            ELSE [st EXCEPT !.distributed_count_down = countdown_val],
   calls |-> IF all_received(countdown_val)
               THEN {RpcCall("rpc_perform_finalize", i, 0, key,
                             get_accumulator(st.root_reducer), 0) :
                       i \in Procs \ {0}}
               ELSE {}]

\* tick_asynchronous_compute(cpuid, key) up to the add into the root reducer
tick_asynchronous_compute(m, w, key) ==
  /\ IF \/ key \notin DOMAIN async_state[m]
        \/ ~(Len(async_state[m][key].per_thread_aggregation) > w)
       THEN /\ aborted' = fatal(m)
            /\ UNCHANGED <<async_state, wpc, nfolded>>
       ELSE LET st == async_state[m][key]
                localmr == async_map(m, st.per_thread_aggregation[w + 1], w)
            IN /\ async_state' = [async_state EXCEPT ![m][key] =
                     [st EXCEPT !.per_thread_aggregation[w + 1] = localmr,
                                !.root_reducer = add_accumulator(@, localmr)]]
               /\ wpc' = [wpc EXCEPT ![m][w] = [pc |-> "tc_count", key |-> key]]
               /\ nfolded' = [nfolded EXCEPT ![m][key] = @ + 1]
               /\ UNCHANGED aborted
  /\ UNCHANGED <<graph, omp_threads, clock, aggregators, aggregate_period,
                 started, start_time, ncpus, curtime, next_time, mainpc,
                 caller, curkey, gatherbox, bcastq, contrib, lastcall>>
  /\ UNCHANGED <<schedule, schedule_lock, rpc, handlers, finlog,
                 returned, pushlog, resched, ncompute, handoffs, nmerged>>

\* a call the engine owes: worker w makes it
TickAsynchronousCompute(m, w, key) ==
  /\ ~aborted[m]
  /\ w \in DOMAIN wpc[m]
  /\ wpc[m][w].pc = "idle"
  /\ <<w, key>> \in todo[m]
  /\ todo' = [todo EXCEPT ![m] = @ \ {<<w, key>>}]
  /\ tick_asynchronous_compute(m, w, key)
  /\ UNCHANGED engineVars

\* a call the engine must not make: the key has no async state on machine m,
\* or the machine has no thread cpuid
StrayCompute(m, cpuid, key) ==
  /\ ~aborted[m]
  /\ mainpc[m] = "idle"
  /\ key \notin DOMAIN async_state[m] \/ cpuid >= ncpus[m]
  /\ NextOpWithin(m, [op |-> "compute", key |-> key, cpuid |-> cpuid], MaxStops)
  /\ tick_asynchronous_compute(m, cpuid, key)
  /\ UNCHANGED todo

\* a last worker that leaves the local countdown at zero
local_count_reset_skipped(m) == 0

\* iter->second.local_count_down = ncpus
local_count_reset(m) == ncpus[m]

\* the local countdown and, for the last worker of the machine, the reset of
\* the state and the hand-off to machine 0
ComputeCountDown(m, w) ==
  /\ ~aborted[m]
  /\ w \in DOMAIN wpc[m]
  /\ wpc[m][w].pc = "tc_count"
  /\ LET key == wpc[m][w].key
         st == async_state[m][key]
         countdown_val == st.local_count_down - 1
         reset == [st EXCEPT
                     !.per_thread_aggregation =
                        [i \in DOMAIN @ |-> clear_accumulator(@[i])],
                     !.local_count_down = local_count_reset(m)]
         dd == decrement_distributed_counter(reset, key)
     IN IF ~(countdown_val < ncpus[m] /\ countdown_val >= 0)
             \/ (local_done(countdown_val) /\ m = 0 /\ ~dd.ok)
          THEN /\ aborted' = fatal(m)
               /\ UNCHANGED <<async_state, wpc, rpc, ncompute, handoffs>>
          ELSE /\ UNCHANGED aborted
               /\ ncompute' = [ncompute EXCEPT ![m][key] = @ + 1]
               /\ IF ~local_done(countdown_val)
                    THEN /\ async_state' = [async_state EXCEPT ![m][key] =
                               [st EXCEPT !.local_count_down = countdown_val]]
                         /\ wpc' = [wpc EXCEPT ![m][w] = IdleWorker]
                         /\ UNCHANGED <<rpc, handoffs>>
                    ELSE /\ handoffs' = [handoffs EXCEPT ![m][key] = @ + 1]
                         /\ IF m # 0
                              THEN /\ async_state' = [async_state EXCEPT ![m][key] =
                                         [reset EXCEPT !.root_reducer =
                                                         clear_accumulator(@)]]
                                   /\ rpc' = rpc \cup
                                        {RpcCall("rpc_key_merge", 0, m, key,
                                                 get_accumulator(st.root_reducer), 0)}
                                   /\ wpc' = [wpc EXCEPT ![m][w] = IdleWorker]
                              ELSE /\ async_state' =
                                        [async_state EXCEPT ![m][key] = dd.st]
                                   /\ rpc' = rpc \cup dd.calls
                                   /\ wpc' = [wpc EXCEPT ![m][w] =
                                         IF dd.zero
                                           THEN [pc |-> "dd_finalize", key |-> key]
                                           ELSE IdleWorker]
  /\ UNCHANGED <<asyncFrame, schedule, schedule_lock, todo, handlers, finlog,
                 returned, pushlog, resched, nfolded, nmerged>>

\* ------------------------------------------------------- the RPC handlers
\* rpc_key_merge on machine 0, up to the remote calls of rpc_perform_finalize
RpcKeyMerge(call) ==
  /\ call \in rpc
  /\ call.fn = "rpc_key_merge"
  /\ ~aborted[call.to]
  /\ LET m == call.to
         key == call.key
         merged == [async_state[m][key] EXCEPT
                      !.root_reducer = add_accumulator_any(@, call.acc)]
         dd == decrement_distributed_counter(merged, key)
     IN IF key \notin DOMAIN async_state[m] \/ m # 0 \/ ~dd.ok
          THEN /\ aborted' = fatal(m)
               /\ rpc' = rpc \ {call}
               /\ UNCHANGED <<async_state, handlers, nmerged>>
          ELSE /\ async_state' = [async_state EXCEPT ![m][key] = dd.st]
               /\ rpc' = (rpc \ {call}) \cup dd.calls
               /\ handlers' = IF dd.zero THEN handlers \cup {key} ELSE handlers
               /\ nmerged' = [nmerged EXCEPT ![call.from][key] = @ + 1]
               /\ UNCHANGED aborted
  /\ UNCHANGED <<asyncFrame, schedule, schedule_lock, wpc, todo, finlog,
                 returned, pushlog, resched, nfolded, ncompute, handoffs>>

\* a finalize phase that every acknowledgement ends
all_finalized_always(countdown_val) == TRUE

\* countdown_val == 0 of the distributed countdown, finalize phase
all_finalized(countdown_val) == countdown_val = 0

\* decrement_finalize_counter(key) on machine m with the async state st of
\* the key; others is what stays in flight. The last acknowledgement resets
\* the countdown and schedules the key here (rpc_schedule_key takes the
\* schedule lock) and on every other machine.
decrement_finalize_counter(m, key, st, others) ==
  LET countdown_val == st.distributed_count_down - 1
      nt == reschedule_time(m, key)
  IN IF all_finalized(countdown_val)
       THEN /\ schedule_lock[m] = -1
            /\ async_state' = [async_state EXCEPT ![m][key] =
                                 [st EXCEPT !.distributed_count_down = NumProcs]]
            /\ schedule' = [schedule EXCEPT ![m] = QueuePush(@, key, -nt)]
            /\ pushlog' = [pushlog EXCEPT ![m] = Append(@, [key |-> key, t |-> nt])]
            /\ resched' = Append(resched, [key |-> key, t |-> nt, now |-> clock[m]])
            /\ rpc' = others \cup {RpcCall("rpc_schedule_key", i, m, key, EmptyAcc, nt) :
                                     i \in Procs \ {0}}
       ELSE /\ async_state' = [async_state EXCEPT ![m][key] =
                                 [st EXCEPT !.distributed_count_down = countdown_val]]
            /\ rpc' = others
            /\ UNCHANGED <<schedule, pushlog, resched>>

\* the rest of decrement_distributed_counter on machine 0: finalize, clear,
\* decrement_finalize_counter
finalize_and_acknowledge(key) ==
  LET st == async_state[0][key] IN
  /\ finlog' = [finlog EXCEPT ![0] =
                  Append(@, FinalizeCall(key, st.root_reducer, returned[0][key]))]
  /\ decrement_finalize_counter(0, key,
       [st EXCEPT !.root_reducer = clear_accumulator(@)], rpc)

\* ... run by the worker whose tick_asynchronous_compute got there
WorkerFinalize(w) ==
  /\ ~aborted[0]
  /\ w \in DOMAIN wpc[0]
  /\ wpc[0][w].pc = "dd_finalize"
  /\ finalize_and_acknowledge(wpc[0][w].key)
  /\ wpc' = [wpc EXCEPT ![0][w] = IdleWorker]
  /\ UNCHANGED <<asyncFrame, schedule_lock, todo, handlers, aborted, returned,
                 nfolded, ncompute, handoffs, nmerged>>

\* ... run by the RPC thread whose rpc_key_merge got there
HandlerFinalize(key) ==
  /\ ~aborted[0]
  /\ key \in handlers
  /\ finalize_and_acknowledge(key)
  /\ handlers' = handlers \ {key}
  /\ UNCHANGED <<asyncFrame, schedule_lock, wpc, todo, aborted, returned,
                 nfolded, ncompute, handoffs, nmerged>>

\* an acknowledgement that machine m counts itself
finalize_reply_to_self(m) == m

\* rmi.remote_call(0, &distributed_aggregator::decrement_finalize_counter, key)
finalize_reply_to(m) == 0

\* rpc_perform_finalize on another machine
RpcPerformFinalize(call) ==
  /\ call \in rpc
  /\ call.fn = "rpc_perform_finalize"
  /\ ~aborted[call.to]
  /\ LET m == call.to
         key == call.key
     IN IF m = 0 \/ key \notin DOMAIN async_state[m]
          THEN /\ aborted' = fatal(m)
               /\ rpc' = rpc \ {call}
               /\ UNCHANGED <<async_state, finlog>>
          ELSE LET root == set_accumulator_any(async_state[m][key].root_reducer,
                                               call.acc)
               IN /\ finlog' = [finlog EXCEPT ![m] =
                        Append(@, FinalizeCall(key, root, returned[m][key]))]
                  /\ async_state' = [async_state EXCEPT
                        ![m][key].root_reducer = clear_accumulator(root)]
                  /\ rpc' = (rpc \ {call}) \cup
                        {RpcCall("decrement_finalize_counter",
                                 finalize_reply_to(m), m, key, EmptyAcc, 0)}
                  /\ UNCHANGED aborted
  /\ UNCHANGED <<asyncFrame, schedule, schedule_lock, wpc, todo, handlers,
                 asyncHist>>

\* decrement_finalize_counter called by another machine
RpcDecrementFinalizeCounter(call) ==
  /\ call \in rpc
  /\ call.fn = "decrement_finalize_counter"
  /\ ~aborted[call.to]
  /\ IF call.key \notin DOMAIN async_state[call.to]
       THEN /\ aborted' = fatal(call.to)
            /\ rpc' = rpc \ {call}
            /\ UNCHANGED <<async_state, schedule, pushlog, resched>>
       ELSE /\ decrement_finalize_counter(call.to, call.key,
                 async_state[call.to][call.key], rpc \ {call})
            /\ UNCHANGED aborted
  /\ UNCHANGED <<asyncFrame, schedule_lock, wpc, todo, handlers, finlog,
                 returned, nfolded, ncompute, handoffs, nmerged>>

\* rpc_schedule_key on another machine
RpcScheduleKey(call) ==
  /\ call \in rpc
  /\ call.fn = "rpc_schedule_key"
  /\ ~aborted[call.to]
  /\ schedule_lock[call.to] = -1
  /\ schedule' = [schedule EXCEPT ![call.to] = QueuePush(@, call.key, -call.t)]
  /\ pushlog' = [pushlog EXCEPT ![call.to] =
                   Append(@, [key |-> call.key, t |-> call.t])]
  /\ rpc' = rpc \ {call}
  /\ UNCHANGED <<asyncFrame, async_state, schedule_lock, wpc, todo, handlers,
                 aborted, finlog, returned, resched, nfolded, ncompute,
                 handoffs, nmerged>>

\* ------------------------------------------------------------------ stop
Call(m, fn, key, seconds, ret) ==
  [n |-> lastcall[m].n + 1, fn |-> fn, key |-> key, seconds |-> seconds,
   ret |-> ret]

\* stop() on the members of machine m
stop_keeps_async_state(m) ==
  [schedule |-> EmptyBag,
   aggregators |-> [k \in DOMAIN aggregators[m] |->
                      clear_accumulator(aggregators[m][k])],
   async_state |-> async_state[m]]

stop(m) ==
  [schedule |-> EmptyBag,
   aggregators |-> [k \in DOMAIN aggregators[m] |->
                      clear_accumulator(aggregators[m][k])],
   async_state |-> EmptyMap]

\* the engine stops on machine m: its threads have left the aggregator, the
\* calls of tick_asynchronous_compute it has not made are never made, and
\* what other machines have sent may still arrive
Stop(m) ==
  /\ mainpc[m] = "idle"
  /\ ~aborted[m]
  /\ \A w \in DOMAIN wpc[m] : wpc[m][w].pc = "idle"
  /\ schedule_lock[m] = -1
  /\ m = 0 => handlers = {}
  /\ NextOpWithin(m, [op |-> "stop"], MaxStops)
  /\ schedule' = [schedule EXCEPT ![m] = stop(m).schedule]
  /\ aggregators' = [aggregators EXCEPT ![m] = stop(m).aggregators]
  /\ async_state' = [async_state EXCEPT ![m] = stop(m).async_state]
  /\ started' = [started EXCEPT ![m] = FALSE]
  /\ wpc' = [wpc EXCEPT ![m] = EmptyMap]
  /\ todo' = [todo EXCEPT ![m] = {}]
  /\ lastcall' = [lastcall EXCEPT ![m] = Call(m, "stop", "", 0, TRUE)]
  /\ UNCHANGED <<graph, omp_threads, clock, aggregate_period, start_time,
                 ncpus, tickVars, callVars, rmiVars, histVars, schedule_lock,
                 rpc, handlers, aborted, asyncHist>>

\* ------------------------------------------------------- registration
\* the map functions a program may pass
MapFns == {"f", "g"}

\* std::map::operator[] assignment
MapPut(map, key, val) ==
  [k \in DOMAIN map \cup {key} |-> IF k = key THEN val ELSE map[k]]


\* a registration that replaces the descriptor of a key already present
add_aggregator_overwrites(m, key, mr) ==
  IF key = "" THEN [ret |-> FALSE, aggregators |-> aggregators[m]]
  ELSE [ret |-> key \notin DOMAIN aggregators[m],
        aggregators |-> MapPut(aggregators[m], key, mr)]

\* the body shared by add_vertex_aggregator and add_edge_aggregator: the
\* value returned and the registry left behind
add_aggregator(m, key, mr) ==
  IF key = "" THEN [ret |-> FALSE, aggregators |-> aggregators[m]]
  ELSE IF key \notin DOMAIN aggregators[m]
    THEN [ret |-> TRUE, aggregators |-> MapPut(aggregators[m], key, mr)]
    ELSE [ret |-> FALSE, aggregators |-> aggregators[m]]

\* what a registration call leaves alone
registrationFrame ==
  <<graph, omp_threads, clock, started, start_time, schedule, ncpus,
    async_state, mainpc, caller, curkey, curtime, next_time, gatherbox,
    bcastq, contrib, finlog, wpc, workerVars, asyncHist>>

\* the program's next registration call on machine m
RegistrationOp(m, fn, key, map_function, seconds) ==
  NextOpWithin(m, [op |-> fn, key |-> key, fn |-> map_function,
                   seconds |-> seconds], MaxOps)

AddVertexAggregator(m, key, fn) ==
  /\ mainpc[m] = "idle"
  /\ RegistrationOp(m, "add_vertex_aggregator", key, fn, 0)
  /\ LET r == add_aggregator(m, key, MapReduceType(TRUE, fn)) IN
     /\ aggregators' = [aggregators EXCEPT ![m] = r.aggregators]
     /\ lastcall' = [lastcall EXCEPT
                       ![m] = Call(m, "add_vertex_aggregator", key, 0, r.ret)]
  /\ UNCHANGED <<registrationFrame, aggregate_period>>

AddEdgeAggregator(m, key, fn) ==
  /\ mainpc[m] = "idle"
  /\ RegistrationOp(m, "add_edge_aggregator", key, fn, 0)
  /\ LET r == add_aggregator(m, key, MapReduceType(FALSE, fn)) IN
     /\ aggregators' = [aggregators EXCEPT ![m] = r.aggregators]
     /\ lastcall' = [lastcall EXCEPT
                       ![m] = Call(m, "add_edge_aggregator", key, 0, r.ret)]
  /\ UNCHANGED <<registrationFrame, aggregate_period>>

\* a call that records the period before it looks at the arguments
aggregate_periodic_unchecked(m, key, seconds) ==
  [ret |-> ~(seconds < 0) /\ key \in DOMAIN aggregators[m],
   aggregate_period |-> MapPut(aggregate_period[m], key, seconds)]

\* aggregate_periodic after its barrier: the value returned and the period
\* table left behind
aggregate_periodic(m, key, seconds) ==
  IF seconds < 0 THEN [ret |-> FALSE, aggregate_period |-> aggregate_period[m]]
  ELSE IF key \notin DOMAIN aggregators[m]
    THEN [ret |-> FALSE, aggregate_period |-> aggregate_period[m]]
    ELSE [ret |-> TRUE,
          aggregate_period |-> MapPut(aggregate_period[m], key, seconds)]

AggregatePeriodic(m, key, seconds) ==
  /\ mainpc[m] = "idle"
  /\ RegistrationOp(m, "aggregate_periodic", key, "", seconds)
  /\ LET r == aggregate_periodic(m, key, seconds) IN
     /\ aggregate_period' = [aggregate_period EXCEPT ![m] = r.aggregate_period]
     /\ lastcall' = [lastcall EXCEPT
                       ![m] = Call(m, "aggregate_periodic", key, seconds, r.ret)]
  /\ UNCHANGED <<registrationFrame, aggregators>>

get_all_periodic_keys(m) == DOMAIN aggregate_period[m]

\* ------------------------------------------------------- specifications
Registry == [k \in Keys |-> MapReduceType(k = "kv", k)]

\* a call that has not been made
NoCall == [n |-> 0, fn |-> "", key |-> "", seconds |-> 0, ret |-> TRUE]

\* the constructed object, but for its registry
InitMembers ==
  /\ clock = [m \in Procs |-> 0]
  /\ lastcall = [m \in Procs |-> NoCall]
  /\ started = [m \in Procs |-> FALSE]
  /\ start_time = [m \in Procs |-> 0]
  /\ schedule = [m \in Procs |-> EmptyBag]
  /\ ncpus = [m \in Procs |-> 0]
  /\ async_state = [m \in Procs |-> EmptyMap]
  /\ mainpc = [m \in Procs |-> "idle"]
  /\ caller = [m \in Procs |-> "engine"]
  /\ curkey = [m \in Procs |-> ""]
  /\ curtime = [m \in Procs |-> 0]
  /\ next_time = [m \in Procs |-> 0]
  /\ gatherbox = [m \in Procs |-> <<>>]
  /\ bcastq = [m \in Procs |-> <<>>]
  /\ script = <<>>
  /\ opidx = [m \in Procs |-> 0]
  /\ contrib = [m \in Procs |-> <<>>]
  /\ finlog = [m \in Procs |-> <<>>]
  /\ schedule_lock = [m \in Procs |-> -1]
  /\ wpc = [m \in Procs |-> EmptyMap]
  /\ todo = [m \in Procs |-> {}]
  /\ rpc = {}
  /\ handlers = {}
  /\ aborted = [m \in Procs |-> FALSE]
  /\ returned = [m \in Procs |-> [k \in Keys |-> 0]]
  /\ pushlog = [m \in Procs |-> <<>>]
  /\ resched = <<>>
  /\ nfolded = [m \in Procs |-> [k \in Keys |-> 0]]
  /\ ncompute = [m \in Procs |-> [k \in Keys |-> 0]]
  /\ handoffs = [m \in Procs |-> [k \in Keys |-> 0]]
  /\ nmerged = [m \in Procs |-> [k \in Keys |-> 0]]

\* ... with both keys registered
InitCommon ==
  /\ aggregators = [m \in Procs |-> Registry]
  /\ InitMembers

\* aggregate_now on every partitioning of the graph and every team size
InitNow ==
  /\ graph \in Graphs
  /\ omp_threads \in [Procs -> 1 .. MaxThreads]
  /\ aggregate_period = [m \in Procs |-> EmptyMap]
  /\ InitCommon

NextNow ==
  \/ \E m \in Procs, key \in Keys : AggregateNow(m, key)
  \/ AggregateNowGather
  \/ \E m \in Procs : AggregateNowBcast(m)

SpecNow == InitNow /\ [][NextNow]_vars

\* the synchronous driver: the same periods on every machine
PeriodTables ==
  UNION {[S -> 0 .. MaxPeriod] : S \in (SUBSET Keys) \ {{}}}

SomeGraph ==
  [owner |-> [v \in Vertices |-> v % NumProcs],
   eproc |-> [e \in Edges |-> (e[1] + 1) % NumProcs]]

\* aggregate_now called by the program on a started engine, where the
\* schedule holds the periodic keys and, with a thread, they have async state
InitNowStarted ==
  /\ graph = SomeGraph
  /\ omp_threads \in [Procs -> 1 .. MaxThreads]
  /\ \E p \in PeriodTables : aggregate_period = [m \in Procs |-> p]
  /\ InitCommon

NextNowStarted ==
  \/ \E m \in Procs, n \in 0 .. LifeCpus : Start(m, n)
  \/ \E m \in Procs, key \in Keys : AggregateNow(m, key)
  \/ AggregateNowGather
  \/ \E m \in Procs : AggregateNowBcast(m)

SpecNowStarted == InitNowStarted /\ [][NextNowStarted]_vars

InitSync ==
  /\ graph = SomeGraph
  /\ omp_threads = [m \in Procs |-> 1]
  /\ \E p \in PeriodTables : aggregate_period = [m \in Procs |-> p]
  /\ InitCommon

NextSync ==
  \/ \E m \in Procs : Start(m, 0)
  \/ \E m \in Procs : AdvanceClock(m)
  \/ \E m \in Procs : TickSynchronous(m)
  \/ \E m \in Procs : TickCurtime(m)
  \/ \E m \in Procs : TickLoop(m)
  \/ AggregateNowGather
  \/ \E m \in Procs : AggregateNowBcast(m)
  \/ \E m \in Procs : TickNextTime(m)

SpecSync == InitSync /\ [][NextSync]_vars

\* the synchronous driver with every machine going on: each machine makes
\* the collective calls the others are waiting in
FairSpecSync == SpecSync /\ WF_vars(NextSync)

\* the registration calls of a program that runs on every machine, made
\* before and after start()
InitReg ==
  /\ graph = SomeGraph
  /\ omp_threads = [m \in Procs |-> 1]
  /\ aggregators = [m \in Procs |-> EmptyMap]
  /\ aggregate_period = [m \in Procs |-> EmptyMap]
  /\ InitMembers

NextReg ==
  \/ \E m \in Procs : Start(m, 0)
  \/ \E m \in Procs, key \in Keys \cup {""}, fn \in MapFns :
       AddVertexAggregator(m, key, fn)
  \/ \E m \in Procs, key \in Keys \cup {""}, fn \in MapFns :
       AddEdgeAggregator(m, key, fn)
  \/ \E m \in Procs, key \in Keys, seconds \in -1 .. MaxPeriod :
       AggregatePeriodic(m, key, seconds)

SpecReg == InitReg /\ [][NextReg]_vars

\* the asynchronous driver
MaxCpus == 2

\* a key of period p comes due when more than p time units have passed since
\* it was scheduled, so within MaxTime it can run MaxTime \div (p + 1) rounds
MaxRounds == 3

RECURSIVE TotalRounds(_, _)
TotalRounds(p, S) ==
  IF S = {} THEN 0
  ELSE LET k == CHOOSE x \in S : TRUE
       IN (MaxTime \div (p[k] + 1)) + TotalRounds(p, S \ {k})

AsyncPeriodTables ==
  {p \in PeriodTables : TotalRounds(p, DOMAIN p) <= MaxRounds}

RpcCalls(fn) == {call \in rpc : call.fn = fn}

InitAsync ==
  /\ graph = SomeGraph
  /\ omp_threads = [m \in Procs |-> 1]
  /\ \E p \in AsyncPeriodTables : aggregate_period = [m \in Procs |-> p]
  /\ InitCommon

NextAsync ==
  \/ \E m \in Procs, n \in 1 .. MaxCpus : Start(m, n)
  \/ \E m \in Procs : AdvanceClock(m)
  \/ \E m \in Procs, w \in 0 .. (MaxCpus - 1) : TickAsynchronous(m, w)
  \/ \E m \in Procs, w \in 0 .. (MaxCpus - 1) : TickAsynchronousPop(m, w)
  \/ \E m \in Procs, w \in 0 .. (MaxCpus - 1), key \in Keys :
       TickAsynchronousCompute(m, w, key)
  \/ \E m \in Procs, w \in 0 .. (MaxCpus - 1) : ComputeCountDown(m, w)
  \/ \E call \in RpcCalls("rpc_key_merge") : RpcKeyMerge(call)
  \/ \E w \in 0 .. (MaxCpus - 1) : WorkerFinalize(w)
  \/ \E key \in Keys : HandlerFinalize(key)
  \/ \E call \in RpcCalls("rpc_perform_finalize") : RpcPerformFinalize(call)
  \/ \E call \in RpcCalls("decrement_finalize_counter") :
       RpcDecrementFinalizeCounter(call)
  \/ \E call \in RpcCalls("rpc_schedule_key") : RpcScheduleKey(call)

SpecAsync == InitAsync /\ [][NextAsync]_vars

\* the asynchronous driver under the engine's obligations: as long as a
\* clock can advance, a worker has a due key to pop or a
\* tick_asynchronous_compute call to make, a running call can go on or a
\* remote call waits to be handled, one of them eventually happens
FairAsync == WF_vars(NextAsync)

\* ... started with a period table of fewer rounds
InitAsyncFair ==
  /\ graph = SomeGraph
  /\ omp_threads = [m \in Procs |-> 1]
  /\ \E p \in AsyncPeriodTables :
       /\ TotalRounds(p, DOMAIN p) < MaxRounds
       /\ aggregate_period = [m \in Procs |-> p]
  /\ InitCommon

FairSpecAsync == InitAsyncFair /\ [][NextAsync]_vars /\ FairAsync

\* the life of the engine: start, asynchronous rounds, stop, start again
AsyncActions ==
  \/ \E m \in Procs : AdvanceClock(m)
  \/ \E m \in Procs, w \in 0 .. (MaxCpus - 1) : TickAsynchronous(m, w)
  \/ \E m \in Procs, w \in 0 .. (MaxCpus - 1) : TickAsynchronousPop(m, w)
  \/ \E m \in Procs, w \in 0 .. (MaxCpus - 1), key \in Keys :
       TickAsynchronousCompute(m, w, key)
  \/ \E m \in Procs, w \in 0 .. (MaxCpus - 1) : ComputeCountDown(m, w)
  \/ \E call \in RpcCalls("rpc_key_merge") : RpcKeyMerge(call)
  \/ \E w \in 0 .. (MaxCpus - 1) : WorkerFinalize(w)
  \/ \E key \in Keys : HandlerFinalize(key)
  \/ \E call \in RpcCalls("rpc_perform_finalize") : RpcPerformFinalize(call)
  \/ \E call \in RpcCalls("decrement_finalize_counter") :
       RpcDecrementFinalizeCounter(call)
  \/ \E call \in RpcCalls("rpc_schedule_key") : RpcScheduleKey(call)

\* no tick is in flight on machine m: the engine owes no call of
\* tick_asynchronous_compute and no round of a key is under way
NoTickInFlight(m) ==
  /\ todo[m] = {}
  /\ rpc = {}
  /\ handlers = {}
  /\ \A i \in Procs : \A w \in DOMAIN wpc[i] : wpc[i][w].pc = "idle"

NextLife ==
  \/ \E m \in Procs, n \in 0 .. LifeCpus : Start(m, n)
  \/ \E m \in Procs : NoTickInFlight(m) /\ Stop(m)
  \/ AsyncActions

SpecLife == InitAsyncFair /\ [][NextLife]_vars

\* graphs with a partition that contributes nothing: the graph without
\* vertices, and the graphs that are whole on one machine
SparseGraphs ==
  {[owner |-> [v \in {} |-> 0], eproc |-> [e \in {} |-> 0]]} \cup
  {[owner |-> [v \in Vertices |-> m], eproc |-> [e \in Edges |-> m]] :
     m \in Procs}

\* one periodic key, due once within MaxTime
InitSparse ==
  /\ graph \in SparseGraphs
  /\ omp_threads = [m \in Procs |-> 1]
  /\ \E p \in AsyncPeriodTables :
       /\ TotalRounds(p, DOMAIN p) = 1
       /\ aggregate_period = [m \in Procs |-> p]
  /\ InitCommon

\* the program calls aggregate_now, then the engine starts and runs the
\* asynchronous rounds
NextSparse ==
  \/ \E m \in Procs, key \in Keys : ~started[m] /\ AggregateNow(m, key)
  \/ AggregateNowGather
  \/ \E m \in Procs : AggregateNowBcast(m)
  \/ \E m \in Procs, n \in 1 .. MaxCpus : Start(m, n)
  \/ AsyncActions

SpecSparse == InitSparse /\ [][NextSparse]_vars

\* the engine stops once, at any moment its threads are out of the
\* aggregator, and starts again: what was under way when it stopped may
\* still arrive
NextRestart ==
  \/ \E m \in Procs, n \in 0 .. LifeCpus : Start(m, n)
  \/ \E m \in Procs : lastcall[m].n = 0 /\ Stop(m)
  \/ AsyncActions

SpecRestart == InitAsyncFair /\ [][NextRestart]_vars

\* the calls a program must not make, before start, in a run and after stop.
\* Every key with a period is registered, other keys may or may not be.
InitStray ==
  /\ graph = SomeGraph
  /\ omp_threads = [m \in Procs |-> 1]
  /\ \E p \in AsyncPeriodTables, S \in SUBSET Keys :
       /\ TotalRounds(p, DOMAIN p) < MaxRounds
       /\ DOMAIN p \subseteq S
       /\ aggregate_period = [m \in Procs |-> p]
       /\ aggregators = [m \in Procs |-> [k \in S |-> Registry[k]]]
  /\ InitMembers

NextStray ==
  \/ \E m \in Procs, n \in 0 .. LifeCpus : lastcall[m].n = 0 /\ Start(m, n)
  \/ \E m \in Procs : lastcall[m].n = 0 /\ Stop(m)
  \/ \E m \in Procs : \E key \in Keys \ DOMAIN aggregators[m] :
       AggregateNow(m, key)
  \/ \E m \in Procs, cpuid \in 0 .. LifeCpus, key \in Keys :
       StrayCompute(m, cpuid, key)
  \/ AsyncActions

SpecStray == InitStray /\ [][NextStray]_vars

\* ------------------------------------------------------------- properties
\* the single-threaded reference folds over the whole graph
RECURSIVE FoldVertices(_, _)
FoldVertices(fn, S) ==
  IF S = {} THEN EmptyBag
  ELSE LET v == CHOOSE x \in S : TRUE
       IN map_vtx_function(fn, v) (+) FoldVertices(fn, S \ {v})

RECURSIVE FoldEdges(_, _)
FoldEdges(fn, S) ==
  IF S = {} THEN EmptyBag
  ELSE LET e == CHOOSE x \in S : TRUE
       IN map_edge_function(fn, e) (+) FoldEdges(fn, S \ {e})

\* a vertex with a replica on a machine that does not own it
Ghosted(v) ==
  \E e \in Edges : (e[1] = v \/ e[2] = v) /\ graph.eproc[e] # graph.owner[v]

\* C1: every finalizer call of a vertex reduction made by aggregate_now, on
\* every machine, receives the fold of map over all vertices of the graph,
\* each vertex once, whatever the partitioning and the thread counts.
C1_VertexFoldOnce ==
  \A m \in Procs : \A i \in 1 .. Len(finlog[m]) :
    LET f == finlog[m][i] IN
    Registry[f.key].vertex_map =>
      f.acc.value = FoldVertices(Registry[f.key].fn, Vertices)

C1_Witness ==
  /\ \E v \in Vertices : Ghosted(v)
  /\ \E m \in Procs : omp_threads[m] > 1
  /\ \A m \in Procs : \E i \in 1 .. Len(finlog[m]) : finlog[m][i].key = "kv"

\* C2: every finalizer call of an edge reduction made by aggregate_now, on
\* every machine, receives the fold of map over all edges of the graph, each
\* edge once, whatever the partitioning and the thread counts.
C2_EdgeFoldOnce ==
  \A m \in Procs : \A i \in 1 .. Len(finlog[m]) :
    LET f == finlog[m][i] IN
    ~Registry[f.key].vertex_map =>
      f.acc.value = FoldEdges(Registry[f.key].fn, Edges)

\* the snapshots of all machines for the i-th collective, combined from
\* machine 0's own sum upwards
RECURSIVE CombinedContrib(_, _, _)
CombinedContrib(acc, i, j) ==
  IF j >= NumProcs THEN acc
  ELSE CombinedContrib(AddAcc(acc, contrib[j][i]), i, j + 1)

\* C3: when a machine calls its finalizer in the i-th collective
\* aggregate_now, every machine has put its snapshot into the gather and the
\* accumulator the finalizer reads is machine 0's own sum combined with the
\* snapshots of machines 1..N-1: the same on every machine.
C3_SameSumAtFinalize ==
  \A m \in Procs : \A i \in 1 .. Len(finlog[m]) :
    /\ \A j \in Procs : Len(contrib[j]) >= i
    /\ finlog[m][i].acc = CombinedContrib(contrib[0][i], i, 1)

C3_Witness ==
  /\ NumProcs > 1
  /\ \A m \in Procs : Len(finlog[m]) >= 1
  /\ \A m \in Procs : contrib[m][1].has_value

\* the finalizer calls of key k on machine m
FinalizeCalls(m, k) == {i \in 1 .. Len(finlog[m]) : finlog[m][i].key = k}

\* the entries of a history that are about key k, in order
RECURSIVE OfKey(_, _)
OfKey(seq, k) ==
  IF seq = <<>> THEN <<>>
  ELSE (IF Head(seq).key = k THEN <<Head(seq)>> ELSE <<>>) \o OfKey(Tail(seq), k)

\* how many entries of key k a schedule holds
Entries(q, k) ==
  BagCardinality([e \in {x \in BagToSet(q) : x[1] = k} |-> CopiesIn(e, q)])

\* the fold of the key's map over the whole graph, every element once
FullFold(k) ==
  IF Registry[k].vertex_map
    THEN FoldVertices(Registry[k].fn, Vertices)
    ELSE FoldEdges(Registry[k].fn, Edges)

\* C4: in asynchronous mode the j-th finalizer call of key k on a machine
\* belongs to the j-th round of k there (the j-th time tick_asynchronous
\* returned k), so no round is finalized twice; once k is back in the
\* machine's schedule every round it popped has been finalized; and every
\* finalizer call, on every machine and in every round, reads the fold of
\* the map over the whole graph with every vertex or edge taken once, with
\* nothing of another round in it.
C4_AsyncRoundOnceSameValue ==
  \A m \in Procs : \A k \in Keys :
    LET fin == OfKey(finlog[m], k) IN
    /\ \A j \in 1 .. Len(fin) :
         /\ fin[j].op = j
         /\ fin[j].acc = [has_value |-> TRUE, value |-> FullFold(k)]
         /\ \A i \in Procs :
              Len(OfKey(finlog[i], k)) >= j => OfKey(finlog[i], k)[j].acc = fin[j].acc
    /\ Len(fin) <= returned[m][k]
    /\ Entries(schedule[m], k) > 0 => Len(fin) = returned[m][k]

\* both machines have finalized a second round of a key, one of them with two
\* worker threads, and a vertex has a replica on a machine that does not
\* own it
C4_Witness ==
  /\ \E k \in Keys : \A m \in Procs : Len(OfKey(finlog[m], k)) >= 2
  /\ \E m \in Procs : ncpus[m] >= 2
  /\ \E v \in Vertices : Ghosted(v)

\* C5: within one tick_synchronous call a machine aggregates (and finalizes)
\* a key at most once, for every period >= 0 and however late the tick is.
C5_AtMostOncePerTick ==
  \A m \in Procs : \A i, j \in 1 .. Len(finlog[m]) :
    (i # j /\ finlog[m][i].op = finlog[m][j].op)
      => finlog[m][i].key # finlog[m][j].key

\* a finished tick that ran a key of period 0 two clock steps after its fire
\* time
C5_Witness ==
  \E k \in DOMAIN aggregate_period[0] :
    /\ aggregate_period[0][k] = 0
    /\ mainpc[0] = "idle"
    /\ curtime[0] >= 2
    /\ \E i \in FinalizeCalls(0, k) : finlog[0][i].op = opidx[0]

\* C6: between ticks, a started machine has run the finalizer of a key of
\* period 0 once per tick_synchronous call it has made, whatever the clock
\* readings were.
C6_PeriodZeroEveryTick ==
  \A m \in Procs : \A k \in DOMAIN aggregate_period[m] :
    (started[m] /\ mainpc[m] = "idle" /\ aggregate_period[m][k] = 0)
      => Cardinality(FinalizeCalls(m, k)) = opidx[m]

\* the entries start() put into the schedule of machine m for key k
StartPushes(m, k) ==
  IF started[m] /\ k \in DOMAIN aggregate_period[m] THEN 1 ELSE 0

\* C7: on every machine and for every key, the tick_asynchronous calls that
\* returned the key plus the entries of the key still in the schedule are the
\* entries ever pushed for the key: every entry removed was returned by one
\* call, under its own key, and no entry was returned twice, however the
\* worker threads and the scheduling RPCs interleave.
C7_EachEntryReturnedOnce ==
  \A m \in Procs : \A k \in Keys :
    returned[m][k] + Entries(schedule[m], k)
      = StartPushes(m, k) + Len(OfKey(pushlog[m], k))

\* a machine with two worker threads whose ticks have returned two different
\* keys while an entry is back in its schedule
C7_Witness ==
  \E m \in Procs :
    /\ ncpus[m] >= 2
    /\ \A k \in Keys : returned[m][k] >= 1
    /\ ~QueueEmpty(schedule[m])

\* the rpc_key_merge calls of machine m for key k that are in flight
MergesInFlight(m, k) ==
  {call \in RpcCalls("rpc_key_merge") : call.from = m /\ call.key = k}

\* C8: a machine has handed its contribution of key k to machine 0 once for
\* every ncpus countdown steps of tick_asynchronous_compute(., k) it has
\* made, never after fewer, and never more often than it popped k; what
\* another machine has handed over is merged or in flight as rpc_key_merge.
C8_HandoffOncePerRound ==
  \A m \in Procs : \A k \in Keys :
    started[m] /\ ncpus[m] > 0 =>
      /\ handoffs[m][k] = ncompute[m][k] \div ncpus[m]
      /\ handoffs[m][k] <= returned[m][k]
      /\ m # 0 => handoffs[m][k] = nmerged[m][k] + Cardinality(MergesInFlight(m, k))

\* every machine has handed over a key, one of them from the second of its
\* two worker threads
C8_Witness ==
  /\ \E k \in Keys : \A m \in Procs : handoffs[m][k] >= 1
  /\ \E m \in Procs : \E k \in Keys : ncpus[m] >= 2 /\ ncompute[m][k] >= 2

\* C9: when a machine has run the finalizer of key k r times, every machine
\* has folded r times all its worker threads' slices into its root
\* accumulator and handed them over, and machine 0 has merged r snapshots of
\* every other machine.
C9_FinalizeAfterAllMerged ==
  \A m \in Procs : \A k \in Keys :
    LET r == Len(OfKey(finlog[m], k)) IN
    \A i \in Procs :
      /\ nfolded[i][k] >= r * ncpus[i]
      /\ handoffs[i][k] >= r
      /\ i # 0 => nmerged[i][k] >= r

\* another machine than machine 0 has run a finalizer and every machine has
\* two worker threads
C9_Witness ==
  /\ \A m \in Procs : ncpus[m] >= 2
  /\ \E m \in Procs \ {0} : \E k \in Keys : Len(OfKey(finlog[m], k)) >= 1

\* the rpc_schedule_key calls for key k on their way to machine m
SchedulesInFlight(m, k) ==
  {call \in RpcCalls("rpc_schedule_key") : call.to = m /\ call.key = k}

\* C10: when key k has been put back into a machine's schedule r times, every
\* machine has run the finalizer of k r times; every reschedule machine 0
\* computed has reached every machine once or is on its way there; the r-th
\* insertion carries, on every machine, the time machine 0 computed for the
\* r-th reschedule, which is its time since start at that moment plus the
\* period of k.
C10_RescheduleAfterAllFinalized ==
  \A k \in Keys :
    LET rs == OfKey(resched, k) IN
    /\ \A m \in Procs :
         LET ps == OfKey(pushlog[m], k) IN
         /\ \A i \in Procs : Len(OfKey(finlog[i], k)) >= Len(ps)
         /\ Len(ps) + Cardinality(SchedulesInFlight(m, k)) = Len(rs)
         /\ \A j \in 1 .. Len(ps) : j <= Len(rs) /\ ps[j].t = rs[j].t
    /\ \A j \in 1 .. Len(rs) :
         rs[j].t = (rs[j].now - start_time[0]) + aggregate_period[0][k]

\* a key of period 1 is back in the schedule of every machine
C10_Witness ==
  \E k \in DOMAIN aggregate_period[0] :
    /\ aggregate_period[0][k] = 1
    /\ \A m \in Procs : Len(OfKey(pushlog[m], k)) >= 1
    /\ \A m \in Procs : Entries(schedule[m], k) >= 1

\* the accumulator holds only what the map of key k produced
OnlyOf(acc, k) == \A e \in BagToSet(acc.value) : e[1] = Registry[k].fn

\* the decrement_finalize_counter calls of machine m for key k in flight
AcksInFlight(m, k) ==
  {call \in RpcCalls("decrement_finalize_counter") : call.from = m /\ call.key = k}

\* snapshots of key k of machines i .. N-1 that machine 0 has merged
RECURSIVE MergedFrom(_, _)
MergedFrom(k, i) ==
  IF i >= NumProcs THEN 0 ELSE nmerged[i][k] + MergedFrom(k, i + 1)

\* contributions of key k that have reached machine 0's distributed countdown
Arrived(k) == handoffs[0][k] + MergedFrom(k, 1)

\* finalizer runs of key k on machines i .. N-1 acknowledged to machine 0
RECURSIVE AckedFrom(_, _)
AckedFrom(k, i) ==
  IF i >= NumProcs THEN 0
  ELSE Len(OfKey(finlog[i], k)) - Cardinality(AcksInFlight(i, k))
       + AckedFrom(k, i + 1)

\* finalizer runs of key k that have been counted by machine 0
Acked(k) == Len(OfKey(finlog[0], k)) + AckedFrom(k, 1)

\* C11: whatever another key is doing, the state of key k on every machine is
\* what k's own history makes it: the local countdown counts k's own
\* tick_asynchronous_compute calls, machine 0's distributed countdown counts
\* k's own contributions (first phase) or k's own acknowledged finalizer runs
\* (second phase), and k's accumulators, snapshots in flight and finalizer
\* values hold nothing but outputs of k's map.
C11_KeysDoNotInterfere ==
  \A k \in Keys :
    /\ \A m \in Procs : k \in DOMAIN async_state[m] /\ ~aborted[m] =>
         LET st == async_state[m][k] IN
         /\ st.local_count_down = ncpus[m] - (ncompute[m][k] % ncpus[m])
         /\ OnlyOf(st.root_reducer.acc, k)
         /\ \A i \in DOMAIN st.per_thread_aggregation :
              OnlyOf(st.per_thread_aggregation[i].acc, k)
    /\ \A call \in rpc : call.key = k => OnlyOf(call.acc, k)
    /\ \A m \in Procs : \A j \in 1 .. Len(OfKey(finlog[m], k)) :
         OfKey(finlog[m], k)[j].acc.value = FullFold(k)
    /\ k \in DOMAIN async_state[0] /\ ~aborted[0] =>
         LET done == Len(OfKey(resched, k))
             dcd == async_state[0][k].distributed_count_down
         IN IF Arrived(k) \div NumProcs > done
              THEN dcd = NumProcs - (Acked(k) - NumProcs * done)
              ELSE dcd = NumProcs - (Arrived(k) - NumProcs * done)

\* both keys are in a round at once: on one machine the countdown of one key
\* is half way while the other key has been handed over and finalized there
C11_Witness ==
  \E m \in Procs : \E k1, k2 \in Keys :
    /\ k1 # k2
    /\ k1 \in DOMAIN async_state[m] /\ k2 \in DOMAIN async_state[m]
    /\ ncpus[m] >= 2
    /\ async_state[m][k1].local_count_down = 1
    /\ handoffs[m][k2] >= 1
    /\ Len(OfKey(finlog[m], k2)) >= 1

\* C16: in an asynchronous run whose workers call tick_asynchronous_compute
\* once per popped key, every async state on every machine has its local
\* countdown in 0 .. ncpus, its distributed countdown in 0 .. numprocs and
\* ncpus per-thread reducers, and no assertion has failed on any machine, in
\* the merge phase and in the finalize-acknowledge phase alike.
C16_CountdownsInRange ==
  \A m \in Procs :
    /\ ~aborted[m]
    /\ \A k \in DOMAIN async_state[m] :
         LET st == async_state[m][k] IN
         /\ st.local_count_down \in 0 .. ncpus[m]
         /\ st.distributed_count_down \in 0 .. NumProcs
         /\ Len(st.per_thread_aggregation) = ncpus[m]

\* machine 0 is waiting for acknowledgements of a second round of a key while
\* a machine with two workers is half way through its local countdown
C16_Witness ==
  /\ \E k \in DOMAIN async_state[0] :
       /\ Len(OfKey(resched, k)) >= 1
       /\ Arrived(k) \div NumProcs > Len(OfKey(resched, k))
       /\ async_state[0][k].distributed_count_down < NumProcs
  /\ \E m \in Procs : \E k \in DOMAIN async_state[m] :
       ncpus[m] >= 2 /\ async_state[m][k].local_count_down = 1

\* the tick_asynchronous calls of machine m that returned a key in this step
ReturnedNow(m) == {k \in Keys : returned'[m][k] # returned[m][k]}

\* C19, the steps: a step in which a tick_asynchronous call on machine m
\* returns key k removes from the schedule exactly one entry, which is an
\* entry of k, has the earliest fire time of all entries and a fire time
\* before the machine's time since start; the schedule changes in no other
\* step than such a return, an insertion by rpc_schedule_key or start().
C19_TickStep ==
  \A m \in Procs :
    /\ \A k \in ReturnedNow(m) :
         /\ ReturnedNow(m) = {k}
         /\ returned'[m][k] = returned[m][k] + 1
         /\ \E e \in BagToSet(schedule[m]) :
              /\ e[1] = k
              /\ \A f \in BagToSet(schedule[m]) : -e[2] <= -f[2]
              /\ -e[2] < clock[m] - start_time[m]
              /\ schedule'[m] = schedule[m] (-) SetToBag({e})
    /\ schedule'[m] # schedule[m] =>
         \/ ReturnedNow(m) # {}
         \/ Len(pushlog'[m]) = Len(pushlog[m]) + 1
         \/ started'[m] # started[m]

\* C19, the call: a worker between calls can always make its
\* tick_asynchronous call, whoever holds the schedule mutex; the call that
\* finds the mutex taken, the schedule empty or no fire time in the past
\* changes nothing.
C19_NeverWaits ==
  \A m \in Procs : \A w \in DOMAIN wpc[m] :
    ((\A i \in Procs : started[i]) /\ ~aborted[m] /\ wpc[m][w].pc = "idle") =>
      /\ ENABLED TickAsynchronous(m, w)
      /\ (\/ ~try_lock(m)
          \/ QueueEmpty(schedule[m])
          \/ ~is_due(schedule[m], clock[m] - start_time[m]))
           => ~ENABLED <<TickAsynchronous(m, w)>>_vars

\* C19: tick_asynchronous never waits for the schedule mutex and returns
\* "no work", changing nothing, when the mutex is taken, the schedule is
\* empty or the earliest fire time is not in the past; when it returns a key
\* it has removed exactly the entry of that key with the earliest fire time,
\* which was in the past.
C19_TickAsynchronous == [][C19_TickStep]_vars /\ []C19_NeverWaits

\* a worker is between calls while the other worker of its machine holds the
\* schedule mutex, with two entries in the schedule, after a key was returned
C19_Witness ==
  \E m \in Procs : \E w \in DOMAIN wpc[m] :
    /\ wpc[m][w].pc = "idle"
    /\ schedule_lock[m] \notin {-1, w}
    /\ \E k \in Keys : returned[m][k] >= 1
    /\ Cardinality(BagToSet(schedule[m])) >= 2

\* the fire time of the r-th round of key k: its period for the first round,
\* the time of the reschedule that ended round r-1 for the later ones
FireTime(k, r) ==
  IF r = 1 \/ Len(OfKey(resched, k)) < r - 1
    THEN aggregate_period[0][k]
    ELSE OfKey(resched, k)[r - 1].t

\* within the modelled time every machine's clock passes that fire time
CanFire(k, r) ==
  \A i \in Procs : MaxTime - start_time[i] > FireTime(k, r)

\* round r of key k is finalized and rescheduled everywhere
RoundDone(k, r) ==
  \A i \in Procs : /\ Len(OfKey(finlog[i], k)) >= r
                   /\ Len(OfKey(pushlog[i], k)) >= r

\* a machine that has not made all ncpus calls of round r of key k keeps
\* every machine from finalizing and from rescheduling that round
C17_StuckWithoutAllCalls ==
  \A k \in Keys : \A r \in 1 .. MaxTime :
    (\E m \in Procs : nfolded[m][k] < r * ncpus[m] \/ ncompute[m][k] < r * ncpus[m])
      => \A i \in Procs : /\ Len(OfKey(finlog[i], k)) < r
                          /\ Len(OfKey(pushlog[i], k)) < r

\* a round of a key has been popped on some machine, can fire on every
\* machine within the modelled time, and is not yet done everywhere
Pending ==
  \E m \in Procs : \E k \in Keys : \E r \in 1 .. MaxTime :
    returned[m][k] >= r /\ CanFire(k, r) /\ ~RoundDone(k, r)

\* C17: when remote calls are delivered, clocks advance, every worker keeps
\* calling tick_asynchronous and makes its tick_asynchronous_compute call for
\* every popped key, then every round of a key popped on any machine is
\* eventually finalized and put back into the schedule on every machine
\* (provided the modelled time lets every machine reach the round's fire
\* time); and as long as some machine has made fewer than ncpus calls of a
\* round the key is finalized and rescheduled nowhere.
C17_PoppedKeyCompletes ==
  /\ Pending ~> ~Pending
  /\ []C17_StuckWithoutAllCalls

\* a second round of a key is done on every machine, one of which has two
\* workers
C17_Witness ==
  /\ \E k \in DOMAIN aggregate_period[0] : CanFire(k, 2) /\ RoundDone(k, 2)
  /\ \E m \in Procs : ncpus[m] >= 2

\* the finalizer calls machine m made in its j-th engine call
CallsInOp(m, j) == {i \in 1 .. Len(finlog[m]) : finlog[m][i].op = j}

\* in no tick has a machine run more finalizers than there are periodic keys,
\* and a machine that is back from a tick has an empty schedule or an
\* earliest fire time that is not before the tick's broadcast time
C18_LoopBounded ==
  \A m \in Procs :
    /\ \A j \in 1 .. opidx[m] :
         Cardinality(CallsInOp(m, j)) <= Cardinality(DOMAIN aggregate_period[m])
    /\ (mainpc[m] = "idle" /\ opidx[m] >= 1) =>
         \/ QueueEmpty(schedule[m])
         \/ ~(-QueueTop(schedule[m])[2] < curtime[m])

\* C18: every tick_synchronous call returns (all machines making the call):
\* its loop runs at most one iteration per periodic key, for periods 0 and
\* above and clocks that never go back, and it ends when the earliest fire
\* time left is not before the time broadcast for this tick.
C18_TickTerminates ==
  /\ \A m \in Procs : (mainpc[m] # "idle") ~> (mainpc[m] = "idle")
  /\ []C18_LoopBounded

\* a machine is back from a tick in which it ran every one of two periodic
\* keys, one of period 0
C18_Witness ==
  \E m \in Procs :
    /\ mainpc[m] = "idle"
    /\ opidx[m] >= 1
    /\ Cardinality(DOMAIN aggregate_period[m]) = 2
    /\ \E k \in DOMAIN aggregate_period[m] : aggregate_period[m][k] = 0
    /\ Cardinality(CallsInOp(m, opidx[m])) = 2

\* C20: in synchronous mode with the same keys and periods registered on all
\* machines, any two started machines that stand between calls after the
\* same number of ticks hold the same (key, fire time) entries in their
\* schedules, whatever their own clocks read; and every machine runs its
\* aggregations for the same keys in the same order and the same ticks.
C20_SchedulesAgree ==
  \A m, i \in Procs :
    /\ (/\ started[m] /\ started[i]
        /\ mainpc[m] = "idle" /\ mainpc[i] = "idle"
        /\ opidx[m] = opidx[i])
         => schedule[m] = schedule[i]
    /\ \A j \in 1 .. Len(finlog[m]) :
         j <= Len(finlog[i]) =>
           /\ finlog[m][j].key = finlog[i][j].key
           /\ finlog[m][j].op = finlog[i][j].op

\* two machines whose clocks and start times differ are back from the same
\* tick, in which a key was aggregated and pushed back
C20_Witness ==
  \E m, i \in Procs :
    /\ clock[m] # clock[i]
    /\ start_time[m] # start_time[i]
    /\ mainpc[m] = "idle" /\ mainpc[i] = "idle"
    /\ opidx[m] = opidx[i] /\ opidx[m] >= 1
    /\ Len(finlog[m]) >= 1 /\ Len(finlog[i]) >= 1
    /\ ~QueueEmpty(schedule[m])

\* machine m makes a call of one of the functions fns in this step
Calls(m, fns) == lastcall'[m] # lastcall[m] /\ lastcall'[m].fn \in fns

\* C13: add_vertex_aggregator and add_edge_aggregator return true exactly
\* when the key is not empty and not in the registry, whatever kind
\* registered it; an accepted call adds the descriptor of its kind and map
\* function and touches no other; a rejected call leaves the registry as it
\* was; neither changes the period table or the schedule.
C13_AddAggregator ==
  [][\A m \in Procs :
       Calls(m, {"add_vertex_aggregator", "add_edge_aggregator"}) =>
         LET c == lastcall'[m] IN
         /\ c.ret = (c.key # "" /\ c.key \notin DOMAIN aggregators[m])
         /\ c.ret =>
              /\ DOMAIN aggregators'[m] = DOMAIN aggregators[m] \cup {c.key}
              /\ aggregators'[m][c.key] =
                   MapReduceType(c.fn = "add_vertex_aggregator",
                                 script'[opidx'[m]].fn)
              /\ \A k \in DOMAIN aggregators[m] :
                   aggregators'[m][k] = aggregators[m][k]
         /\ ~c.ret => aggregators'[m] = aggregators[m]
         /\ aggregate_period'[m] = aggregate_period[m]
         /\ schedule'[m] = schedule[m]]_vars

\* a started machine with a key in its schedule has rejected the edge
\* registration of a key that is registered as a vertex reduction
C13_Witness ==
  \E m \in Procs :
    /\ lastcall[m].fn = "add_edge_aggregator"
    /\ ~lastcall[m].ret
    /\ lastcall[m].key \in DOMAIN aggregators[m]
    /\ aggregators[m][lastcall[m].key].vertex_map
    /\ ~QueueEmpty(schedule[m])

\* C14, the call: aggregate_periodic returns true exactly when the key is
\* registered and seconds >= 0, and then the period of the key is seconds and
\* no other period has changed; when it returns false the period table is as
\* it was.
C14_Step ==
  \A m \in Procs :
    Calls(m, {"aggregate_periodic"}) =>
      LET c == lastcall'[m] IN
      /\ c.ret = (c.key \in DOMAIN aggregators[m] /\ c.seconds >= 0)
      /\ c.ret =>
           /\ DOMAIN aggregate_period'[m] = DOMAIN aggregate_period[m] \cup {c.key}
           /\ aggregate_period'[m][c.key] = c.seconds
           /\ \A k \in DOMAIN aggregate_period[m] \ {c.key} :
                aggregate_period'[m][k] = aggregate_period[m][k]
      /\ ~c.ret => aggregate_period'[m] = aggregate_period[m]
      /\ aggregators'[m] = aggregators[m]

\* C14, the states: every key with a period, and so every key that
\* get_all_periodic_keys returns, is a registered key with a period >= 0.
C14_PeriodicKeysRegistered ==
  \A m \in Procs :
    /\ get_all_periodic_keys(m) \subseteq DOMAIN aggregators[m]
    /\ \A k \in get_all_periodic_keys(m) : aggregate_period[m][k] >= 0

\* C14: aggregate_periodic(key, seconds) returns true iff the key is
\* registered and seconds >= 0 and then sets (or replaces) the period of the
\* key; a call that returns false changes no period; so the keys with a
\* period are registered keys in every reachable state.
C14_AggregatePeriodic == [][C14_Step]_vars /\ []C14_PeriodicKeysRegistered

\* the third call of a machine has replaced the period its second call gave
\* to the key
C14_Witness ==
  \E m \in Procs :
    /\ lastcall[m].n = 3
    /\ lastcall[m].fn = "aggregate_periodic"
    /\ lastcall[m].ret
    /\ script[2].op = "aggregate_periodic"
    /\ script[2].key = lastcall[m].key
    /\ script[2].seconds >= 0
    /\ script[2].seconds # lastcall[m].seconds
    /\ aggregate_period[m][lastcall[m].key] = lastcall[m].seconds

\* machine m returns from start() in this step
Starts(m) == started'[m] /\ ~started[m]

\* the async state of a key that no round has touched: n empty per-thread
\* clones and an empty root of the kind and map function of the descriptor,
\* local countdown n, distributed countdown numprocs
FreshAsyncState(st, mr, n) ==
  /\ st.local_count_down = n
  /\ st.distributed_count_down = NumProcs
  /\ Len(st.per_thread_aggregation) = n
  /\ \A i \in 1 .. n :
       st.per_thread_aggregation[i] = MapReduceType(mr.vertex_map, mr.fn)
  /\ st.root_reducer = MapReduceType(mr.vertex_map, mr.fn)

\* C12, stop: the schedule and the async state map of the machine are empty
\* when stop() returns, and a stop() that follows a stop() changes no member.
C12_StopStep ==
  \A m \in Procs :
    Calls(m, {"stop"}) =>
      /\ schedule'[m] = EmptyBag
      /\ async_state'[m] = EmptyMap
      /\ (lastcall[m].fn = "stop" /\ ~started[m]) =>
           /\ schedule'[m] = schedule[m]
           /\ async_state'[m] = async_state[m]
           /\ aggregators'[m] = aggregators[m]
           /\ aggregate_period'[m] = aggregate_period[m]
           /\ ncpus'[m] = ncpus[m]
           /\ start_time'[m] = start_time[m]

\* C12, start: every start(ncpus), the first and one that follows a stop(),
\* returns with the same state: each periodic key once in the schedule at
\* its period, no other key, the accumulators of the registry empty and,
\* for ncpus > 0, a fresh async state for the periodic keys and for no other
\* key; for ncpus = 0 no async state.
C12_StartStep ==
  \A m \in Procs :
    Starts(m) =>
      /\ BagToSet(schedule'[m]) =
           {<<k, -aggregate_period[m][k]>> : k \in DOMAIN aggregate_period[m]}
      /\ \A e \in BagToSet(schedule'[m]) : CopiesIn(e, schedule'[m]) = 1
      /\ \A k \in DOMAIN aggregators'[m] : aggregators'[m][k].acc = EmptyAcc
      /\ DOMAIN async_state'[m] =
           IF ncpus'[m] > 0 THEN DOMAIN aggregate_period[m] ELSE {}
      /\ \A k \in DOMAIN async_state'[m] :
           FreshAsyncState(async_state'[m][k], aggregators[m][k], ncpus'[m])

\* C12: after any legal sequence of operations, with no tick in flight,
\* stop() leaves the schedule and the async state map empty and a second
\* stop() changes nothing; a following start(ncpus) yields the state of the
\* first start(ncpus): the schedule holds exactly the periodic keys and, for
\* ncpus > 0, every periodic key has a fresh async state.
C12_StopThenStart == [][C12_StopStep /\ C12_StartStep]_vars

\* a machine that has run a round to its finalize, was stopped twice and
\* started again with a thread
C12_Witness ==
  \E m \in Procs :
    /\ started[m]
    /\ lastcall[m].fn = "stop"
    /\ lastcall[m].n = 2
    /\ finlog[m] # <<>>
    /\ ncpus[m] > 0
    /\ DOMAIN async_state[m] # {}

\* the engine thread of machine m makes the call op in this step
EngineCalls(m, op) == opidx'[m] = opidx[m] + 1 /\ script'[opidx'[m]].op = op

\* the remote call is handled in this step
Handled(call) == call \in rpc /\ call \notin rpc'

\* machine m aborts in this step, and the call that made it abort has
\* changed no member, called no finalize and sent nothing
AbortsUnchanged(m) ==
  /\ aborted'[m]
  /\ aggregators'[m] = aggregators[m]
  /\ aggregate_period'[m] = aggregate_period[m]
  /\ async_state'[m] = async_state[m]
  /\ schedule'[m] = schedule[m]
  /\ ncpus'[m] = ncpus[m]
  /\ start_time'[m] = start_time[m]
  /\ finlog'[m] = finlog[m]
  /\ rpc' \subseteq rpc

InSchedule(m, k) == Entries(schedule[m], k) >= 1

\* the threads of machine m have nothing of key k: the local countdown is
\* ncpus and every per-thread reducer is empty
LocalPristine(m, k) ==
  LET st == async_state[m][k] IN
  /\ st.local_count_down = ncpus[m]
  /\ \A i \in 1 .. Len(st.per_thread_aggregation) :
       get_accumulator(st.per_thread_aggregation[i]) = EmptyAcc

\* the async state of key k on machine m is as start() left it
Pristine(m, k) ==
  /\ LocalPristine(m, k)
  /\ async_state[m][k].distributed_count_down = NumProcs
  /\ get_accumulator(async_state[m][k].root_reducer) = EmptyAcc

\* the snapshots of key k machine 0 has merged for the round that no
\* reschedule has closed yet
RECURSIVE MergedThisRound(_, _)
MergedThisRound(k, i) ==
  IF i = 0 THEN 0
  ELSE (nmerged[i][k] - Len(OfKey(resched, k))) + MergedThisRound(k, i - 1)

\* the finalize-acknowledge phase of key k is under way
Finalizing(k) ==
  \/ k \in handlers
  \/ \E w \in DOMAIN wpc[0] : wpc[0][w] = [pc |-> "dd_finalize", key |-> k]
  \/ \E call \in rpc :
       /\ call.key = k
       /\ call.fn \in {"rpc_perform_finalize", "decrement_finalize_counter"}

FireTimes(q, k) == {-e[2] : e \in {x \in BagToSet(q) : x[1] = k}}

\* C22: when start(ncpus) returns on a machine, start_time is the time of the
\* call; the schedule holds one entry for each key of the period table, due
\* one period after start_time, and no entry of any other key or from before
\* the call; for ncpus > 0 the async state map holds the periodic keys and no
\* other, each with local countdown ncpus, distributed countdown numprocs,
\* ncpus per-thread reducers and a root reducer, all empty and of the kind
\* and map function of the registered descriptor; for ncpus = 0 it holds no
\* key.
C22_StartBuildsSchedule ==
  [][\A m \in Procs :
       Starts(m) =>
         /\ start_time'[m] = clock[m]
         /\ \A k \in Keys :
              IF k \in DOMAIN aggregate_period[m]
                THEN /\ Entries(schedule'[m], k) = 1
                     /\ FireTimes(schedule'[m], k) = {aggregate_period[m][k]}
                ELSE Entries(schedule'[m], k) = 0
         /\ ncpus'[m] = 0 => async_state'[m] = EmptyMap
         /\ ncpus'[m] > 0 =>
              /\ DOMAIN async_state'[m] = DOMAIN aggregate_period[m]
              /\ \A k \in DOMAIN aggregate_period[m] :
                   LET st == async_state'[m][k]
                       mr == aggregators[m][k]
                   IN /\ st.local_count_down = ncpus'[m]
                      /\ st.distributed_count_down = NumProcs
                      /\ Len(st.per_thread_aggregation) = ncpus'[m]
                      /\ \A r \in {st.root_reducer} \cup
                                  {st.per_thread_aggregation[i] :
                                     i \in 1 .. ncpus'[m]} :
                           /\ get_accumulator(r) = EmptyAcc
                           /\ is_vertex_map(r) = is_vertex_map(mr)
                           /\ r.fn = mr.fn]_vars

\* a machine that stopped while a round was under way, got the key back
\* into its schedule from machine 0 while it was stopped, and has started
\* again with a thread: its schedule holds the key once
C22_Witness ==
  \E m \in Procs \ {0} : \E k \in DOMAIN aggregate_period[m] :
    /\ started[m]
    /\ lastcall[m].fn = "stop"
    /\ Len(OfKey(pushlog[m], k)) >= 1
    /\ returned[m][k] = 1
    /\ Entries(schedule[m], k) = 1
    /\ ncpus[m] > 0

\* C23, the states: on a machine other than 0 the distributed countdown of
\* every key is numprocs, and every remote call that merges a snapshot or
\* acknowledges a finalize is addressed to machine 0.
C23_PeersKeepInitialValue ==
  /\ \A m \in Procs \ {0} : \A k \in DOMAIN async_state[m] :
       async_state[m][k].distributed_count_down = NumProcs
  /\ \A call \in rpc :
       call.fn \in {"rpc_key_merge", "decrement_finalize_counter"} => call.to = 0

\* C23, the steps: no step changes the distributed countdown of a key on a
\* machine other than 0, and a step that counts a merged snapshot is a step
\* of machine 0: it takes the remote call addressed to machine 0 and changes
\* the countdown there.
C23_Step ==
  /\ \A m \in Procs \ {0} :
       \A k \in DOMAIN async_state[m] \cap DOMAIN async_state'[m] :
         async_state'[m][k].distributed_count_down =
           async_state[m][k].distributed_count_down
  /\ \A i \in Procs, k \in Keys :
       nmerged'[i][k] # nmerged[i][k] =>
         /\ \E call \in rpc \ rpc' : call.fn = "rpc_key_merge" /\ call.to = 0
         /\ async_state'[0][k].distributed_count_down #
              async_state[0][k].distributed_count_down

\* C23: the distributed countdown is used on machine 0 only: on every other
\* machine it keeps the value numprocs start() gave it, for every key, in
\* every state from start() to stop(); nothing that runs there decrements or
\* resets it, and the merge step runs on machine 0 only.
C23_CountdownOnCoordinatorOnly ==
  []C23_PeersKeepInitialValue /\ [][C23_Step]_vars

\* another machine has run the finalizer of a key, with its countdown as
\* start() left it, while machine 0 still waits for its acknowledgement
C23_Witness ==
  \E m \in Procs \ {0} : \E k \in DOMAIN async_state[m] :
    /\ Len(OfKey(finlog[m], k)) >= 1
    /\ k \in DOMAIN async_state[0]
    /\ async_state[0][k].distributed_count_down < NumProcs
    /\ \E call \in rpc :
         call.fn = "decrement_finalize_counter" /\ call.from = m /\ call.key = k

\* a round of key k is in flight on machine m: a tick_asynchronous call there
\* has returned k and k has not been put back into the schedule of m since
RoundInFlight(m, k) ==
  returned[m][k] > Len(OfKey(pushlog[m], k))

\* C24, the states: the schedule of a machine holds at most one entry of a
\* key, and none while a round of the key is in flight on the machine.
C24_OneEntryPerKey ==
  \A m \in Procs, k \in Keys :
    /\ Entries(schedule[m], k) <= 1
    /\ RoundInFlight(m, k) => Entries(schedule[m], k) = 0

\* C24, the steps: rpc_schedule_key puts a key into a schedule that does not
\* hold it.
C24_PushStep ==
  \A m \in Procs, k \in Keys :
    Len(OfKey(pushlog'[m], k)) > Len(OfKey(pushlog[m], k)) =>
      /\ Entries(schedule[m], k) = 0
      /\ Entries(schedule'[m], k) = 1

\* C24: in every state of an asynchronous run the schedule of each machine
\* holds at most one entry per key; a key is not in the schedule of a machine
\* while a round of it is in flight there; and rpc_schedule_key never runs for
\* a key the schedule already holds.
C24_NoDuplicateEntries == []C24_OneEntryPerKey /\ [][C24_PushStep]_vars

\* a key is in its second round on one machine while a worker of another
\* machine, where the key has come back, holds the schedule lock to pop it
C24_Witness ==
  \E k \in Keys : \E m, i \in Procs :
    /\ returned[m][k] = 2
    /\ RoundInFlight(m, k)
    /\ Len(OfKey(pushlog[i], k)) = 1
    /\ Entries(schedule[i], k) = 1
    /\ \E w \in DOMAIN wpc[i] : wpc[i][w] = [pc |-> "ta_pop", key |-> k]

\* the aggregate_now calls of key k machine m has returned from
ReturnedCalls(m, k) ==
  {j \in 1 .. (IF mainpc[m] = "idle" THEN opidx[m] ELSE opidx[m] - 1) :
     script[j].key = k}

\* what the accumulator of a key may hold when aggregate_now is called
PriorAccs ==
  {EmptyAcc,
   AddValue(EmptyAcc, map_vtx_function("f", 1)),
   AddValue(AddValue(EmptyAcc, map_edge_function("g", <<1, 2>>)),
            map_edge_function("g", <<1, 2>>))}

\* C25, the states: on each machine the finalizer of key k has run once for
\* every aggregate_now(k) the machine has returned from, and between calls
\* every accumulator of the registry is empty; the local reduction of a call
\* is the same whatever the accumulator of the key holds when it begins.
C25_OncePerCall ==
  \A m \in Procs, k \in Keys :
    /\ Cardinality(FinalizeCalls(m, k)) = Cardinality(ReturnedCalls(m, k))
    /\ mainpc[m] = "idle" => get_accumulator(aggregators[m][k]) = EmptyAcc
    /\ \A acc \in PriorAccs :
         local_reduce_from(m, [aggregators[m][k] EXCEPT !.acc = acc])
           = local_reduce(m, k)

\* C25, the steps: a step of aggregate_now(k) on machine m leaves the period
\* table, the schedule and the async states of m as they are, adds no key to
\* the registry and removes none, changes no descriptor of another key and
\* not the kind or the map function of the descriptor of k.
C25_Frame ==
  \A m \in Procs :
    mainpc'[m] # mainpc[m] =>
      /\ aggregate_period'[m] = aggregate_period[m]
      /\ schedule'[m] = schedule[m]
      /\ async_state'[m] = async_state[m]
      /\ DOMAIN aggregators'[m] = DOMAIN aggregators[m]
      /\ \A k \in DOMAIN aggregators[m] :
           /\ k # curkey'[m] => aggregators'[m][k] = aggregators[m][k]
           /\ clone_empty(aggregators'[m][k]) = clone_empty(aggregators[m][k])

\* C25: aggregate_now(k) runs the finalizer of k once on each machine and
\* returns with the accumulator of k empty; it changes neither the registry,
\* the period table, the schedule, an async state nor the accumulator of
\* another key; its result does not depend on what the accumulator of k held
\* before the call.
C25_AggregateNowFrame == []C25_OncePerCall /\ [][C25_Frame]_vars

\* a machine started with a thread has returned from two calls of
\* aggregate_now, the second of a periodic key that has async state and is in
\* the schedule
C25_Witness ==
  \E m \in Procs :
    /\ started[m]
    /\ ncpus[m] > 0
    /\ mainpc[m] = "idle"
    /\ opidx[m] = 2
    /\ script[2].key \in DOMAIN async_state[m]
    /\ InSchedule(m, script[2].key)
    /\ Len(finlog[m]) = 2
    /\ finlog[m][2].acc.has_value

\* the partition of machine m has nothing for key k: no vertex it owns for a
\* vertex reduction, no edge for an edge reduction
NothingFor(m, k) ==
  IF Registry[k].vertex_map
    THEN \A v \in DOMAIN graph.owner : graph.owner[v] # m
    ELSE \A e \in DOMAIN graph.eproc : graph.eproc[e] # m

\* the sum of key k over the graph there is: empty when no machine has
\* anything for k
GlobalValue(k) ==
  IF \A m \in Procs : NothingFor(m, k) THEN EmptyAcc
  ELSE [has_value |-> TRUE,
        value |-> IF Registry[k].vertex_map
                    THEN FoldVertices(Registry[k].fn, DOMAIN graph.owner)
                    ELSE FoldEdges(Registry[k].fn, DOMAIN graph.eproc)]

\* the aggregate_now calls machine m has returned from
NowCalls(m) == IF mainpc[m] = "idle" THEN opidx[m] ELSE opidx[m] - 1

\* the asynchronous rounds of key k that are closed: machine 0 has computed
\* the next fire time
ClosedRounds(k) == Len(OfKey(resched, k))

\* C26, aggregate_now: a machine whose partition has nothing for the key
\* puts the empty sum into the gather, and every machine, this one too, runs
\* its finalizer once per call, on the sum over the whole graph.
C26_Now ==
  \A m \in Procs :
    /\ \A i \in 1 .. Len(contrib[m]) :
         NothingFor(m, script[i].key) => contrib[m][i] = EmptyAcc
    /\ Len(finlog[m]) >= NowCalls(m)
    /\ \A i \in 1 .. NowCalls(m) :
         /\ finlog[m][i].key = script[i].key
         /\ finlog[m][i].acc = GlobalValue(script[i].key)

\* C26, asynchronous mode: on a machine whose partition has nothing for key
\* k the snapshot sent to machine 0 is the empty sum; every round of k that
\* is closed has taken, on every machine, ncpus steps of the local countdown,
\* one hand-off and one finalizer call, and on machine 0 one merge per other
\* machine; every finalizer call of a round reads the sum over the whole
\* graph.
C26_Async ==
  \A m \in Procs, k \in Keys :
    /\ \A call \in MergesInFlight(m, k) :
         NothingFor(m, k) => call.acc = EmptyAcc
    /\ started[m] =>
         /\ ncompute[m][k] >= ClosedRounds(k) * ncpus[m]
         /\ handoffs[m][k] >= ClosedRounds(k)
         /\ m # 0 => nmerged[m][k] >= ClosedRounds(k)
         /\ Len(finlog[m]) - NowCalls(m) >= ClosedRounds(k)
    /\ \A i \in (NowCalls(m) + 1) .. Len(finlog[m]) :
         finlog[m][i].key = k => finlog[m][i].acc = GlobalValue(k)

\* C26: a machine whose partition contributes nothing takes part in the
\* whole protocol: in aggregate_now it puts the empty sum into the gather and
\* runs its finalizer on the global value; in asynchronous mode its workers
\* drain the local countdown, it sends an empty snapshot that machine 0
\* counts, and its finalizer runs on the global value. On the empty graph the
\* finalizer runs once on every machine.
C26_EmptyPartitionTakesPart == C26_Now /\ C26_Async

\* on the graph without vertices every machine has returned from an
\* aggregate_now and has closed an asynchronous round, with one finalizer
\* call on the empty sum for each, one machine with two workers
C26_Witness ==
  /\ DOMAIN graph.owner = {}
  /\ \E m \in Procs : ncpus[m] = 2
  /\ \E k \in Keys :
       /\ ClosedRounds(k) = 1
       /\ \A m \in Procs :
            /\ NowCalls(m) = 1
            /\ Len(finlog[m]) = 2
            /\ finlog[m][1].acc = EmptyAcc
            /\ finlog[m][2] = [key |-> k, acc |-> EmptyAcc, op |-> 1]
            /\ ncompute[m][k] = ncpus[m]
====
